---- MODULE Spec2Model ----
(***************************************************************************)
(* Verification model of GIDatingServiceCDK.                               *)
(*                                                                         *)
(* Part I  : the bootstrap script scripts/automate_deployment.sh, in the   *)
(*           three versions the repository holds (the current one, the     *)
(*           first one, and the one that also deploys the website stacks). *)
(* Part II : the CodePipeline definitions declared by the pipeline stacks  *)
(*           and the execution of one pipeline over its declared stages.   *)
(* Part III: the CDK app lib/app.ts with the configuration table of        *)
(*           utils/config.ts and the naming functions of utils/utils.ts.   *)
(* Part IV : the script of the CheckDeviceFarmResults action.              *)
(* Part V  : the contact-form handler and its table.                       *)
(* Part VI : scripts/automate_cleanup.sh.                                  *)
(* Part VII: the constructor of DomainConfigurationStack.                  *)
(* Part VIII: the role check of the deploy-*-pipeline.sh scripts.          *)
(***************************************************************************)
EXTENDS Integers, Sequences, FiniteSets, TLC

VARIABLES
    variant,        \* which version of the bootstrap script runs
    env,            \* PIPELINE_ACCOUNT_ID, BETA_ACCOUNT_ID, PROD_ACCOUNT_ID
    pc,             \* index of the next command of the script
    waiting,        \* TRUE while the shell waits for a foreground command
    inflight,       \* commands started and not yet completed
    finished,       \* commands completed
    bgjobs,         \* commands started with a trailing &
    started,        \* commands the shell has started
    passed,         \* started role deploy -> its --parameter-overrides
    shvars,         \* KEY_ARN, FRONT_END_KEY_ARN, WEBSITE_KEY_ARN
    cdkOutputFile,  \* lines of the file .cdk_output
    lastStatus,     \* $? of the shell
    exitStatus,     \* -1 while the script runs, else its exit status
    exitLine,       \* source line of the exit taken, 0 for end of file
    pipeline,       \* the pipeline stack whose pipeline executes
    exec,           \* execution -> its status, stage and action states
    appVersion,     \* which version of app.ts and utils/config.ts runs
    accounts,       \* betaAccountId and prodAccountId
    cdkDefaultAccount,      \* process.env.CDK_DEFAULT_ACCOUNT, << >> if unset
    apc,            \* the statement of app.ts that runs next
    ai,             \* position of the loop over stageConfigurationList
    stageConfigurationList, \* the configuration table
    lists,          \* the lists the pipeline stacks read by position
    app,            \* the stacks constructed in the CDK app
    built,          \* the pipeline stacks constructed, with what they read
    lastCall,       \* the latest call of a naming function
    observed,       \* an earlier call of a naming function
    interleaved,    \* another call was made after the observed one
    deviceFarm,     \* the run of the device farm results script
    contactForm,    \* the contact-form table and the handler invocations
    cleanup,        \* the run of scripts/automate_cleanup.sh
    domainConfig,   \* the DomainConfigurationStack under construction
    roleCheck       \* the role check of the deploy-*-pipeline.sh scripts

scriptVars == <<variant, env, pc, waiting, inflight, finished, bgjobs,
                started, passed, shvars, cdkOutputFile, lastStatus,
                exitStatus, exitLine>>

pipeVars == <<pipeline, exec>>

appVars == <<appVersion, accounts, cdkDefaultAccount, apc, ai,
             stageConfigurationList, lists, app, built>>

namingVars == <<lastCall, observed, interleaved>>

runVars == <<deviceFarm, contactForm, cleanup, domainConfig, roleCheck>>

tsVars == <<appVars, namingVars, runVars>>

(***************************************************************************)
(* Part I.  The bootstrap script                                           *)
(***************************************************************************)

EnvNames == {"PIPELINE_ACCOUNT_ID", "BETA_ACCOUNT_ID", "PROD_ACCOUNT_ID"}

\* an unset or empty variable expands to "", a set one to an account id
AccountValues == {"", "111122223333"}

ShellVars == {"KEY_ARN", "FRONT_END_KEY_ARN", "WEBSITE_KEY_ARN"}

Variants == {"current", "first", "website"}

\* ---- commands of the script, one record per command, with its line ----

Prereq(line, exitAt) ==
    [op |-> "prereq", line |-> line, exitAt |-> exitAt, stack |-> "",
     profile |-> "", stage |-> "", keys |-> <<>>, bg |-> FALSE,
     tee |-> FALSE, var |-> "", pat |-> ""]

RoleDeploy(line, stack, profile, stage, keys, bg) ==
    [op |-> "role_deploy", line |-> line, exitAt |-> 0, stack |-> stack,
     profile |-> profile, stage |-> stage, keys |-> keys, bg |-> bg,
     tee |-> FALSE, var |-> "", pat |-> ""]

Build(line) ==
    [op |-> "build", line |-> line, exitAt |-> 0, stack |-> "",
     profile |-> "", stage |-> "", keys |-> <<>>, bg |-> FALSE,
     tee |-> FALSE, var |-> "", pat |-> ""]

CdkDeploy(line, stack, profile, tee) ==
    [op |-> "cdk_deploy", line |-> line, exitAt |-> 0, stack |-> stack,
     profile |-> profile, stage |-> "", keys |-> <<>>, bg |-> FALSE,
     tee |-> tee, var |-> "", pat |-> ""]

Capture(line, var, pat) ==
    [op |-> "capture", line |-> line, exitAt |-> 0, stack |-> "",
     profile |-> "", stage |-> "", keys |-> <<>>, bg |-> FALSE,
     tee |-> FALSE, var |-> var, pat |-> pat]

KeyCheck(line, exitAt, var) ==
    [op |-> "keycheck", line |-> line, exitAt |-> exitAt, stack |-> "",
     profile |-> "", stage |-> "", keys |-> <<>>, bg |-> FALSE,
     tee |-> FALSE, var |-> var, pat |-> ""]

GitPush(line) ==
    [op |-> "git_push", line |-> line, exitAt |-> 0, stack |-> "",
     profile |-> "", stage |-> "", keys |-> <<>>, bg |-> FALSE,
     tee |-> FALSE, var |-> "", pat |-> ""]

Describe(line, stack, profile) ==
    [op |-> "describe", line |-> line, exitAt |-> 0, stack |-> stack,
     profile |-> profile, stage |-> "", keys |-> <<>>, bg |-> FALSE,
     tee |-> FALSE, var |-> "", pat |-> ""]

Cleanup(line) ==
    [op |-> "cleanup", line |-> line, exitAt |-> 0, stack |-> "",
     profile |-> "", stage |-> "", keys |-> <<>>, bg |-> FALSE,
     tee |-> FALSE, var |-> "", pat |-> ""]

CPCAR == "CodePipelineCrossAccountRole"
CFDR  == "CloudFormationDeploymentRole"

NoKeys    == <<>>
OneKey    == << <<"KeyArn", "KEY_ARN">> >>
ThreeKeys == << <<"KeyArn", "KEY_ARN">>,
                <<"FrontEndKeyArn", "FRONT_END_KEY_ARN">>,
                <<"WebsiteKeyArn", "WEBSITE_KEY_ARN">> >>

\* scripts/automate_deployment.sh, lines 1-162: every command in the
\* foreground, three pipeline stacks, three key ARNs
ScriptCurrent ==
    << Prereq(10, 15),
       RoleDeploy(20, CPCAR, "beta", "Beta", NoKeys, FALSE),
       RoleDeploy(26, CFDR,  "beta", "Beta", NoKeys, FALSE),
       RoleDeploy(32, CPCAR, "prod", "Prod", NoKeys, FALSE),
       RoleDeploy(37, CFDR,  "prod", "Prod", NoKeys, FALSE),
       Build(45),
       CdkDeploy(57, "PipelineDeploymentStack", "pipeline", TRUE),
       Capture(64, "KEY_ARN", "KeyArn"),
       KeyCheck(68, 70, "KEY_ARN"),
       CdkDeploy(75, "FrontEndPipelineDeploymentStack", "pipeline", TRUE),
       Capture(82, "FRONT_END_KEY_ARN", "KeyArn"),
       KeyCheck(86, 88, "FRONT_END_KEY_ARN"),
       CdkDeploy(93, "WebsitePipelineStack", "pipeline", TRUE),
       Capture(100, "WEBSITE_KEY_ARN", "WebsiteArtifactBucketEncryptionKeyArn"),
       KeyCheck(104, 106, "WEBSITE_KEY_ARN"),
       RoleDeploy(111, CPCAR, "beta", "Beta", ThreeKeys, FALSE),
       RoleDeploy(117, CFDR,  "beta", "Beta", ThreeKeys, FALSE),
       RoleDeploy(123, CFDR,  "prod", "Prod", ThreeKeys, FALSE),
       RoleDeploy(129, CPCAR, "prod", "Prod", ThreeKeys, FALSE),
       GitPush(137),
       Describe(146, "WebsiteBetaus-west-2BucketStack", "beta"),
       Describe(151, "WebsiteBetaus-west-2Domainqandmedating-comStack", "beta"),
       Describe(153, "WebsiteBetaus-west-2Domainqandmedating-comStack", "beta"),
       Cleanup(157) >>

\* the first version with the fourth bare role deploy ending in & too
ScriptFirst_fourthBackground ==
    << Prereq(172, 177),
       RoleDeploy(182, CPCAR, "beta", "Beta", NoKeys, TRUE),
       RoleDeploy(188, CFDR,  "beta", "Beta", NoKeys, TRUE),
       RoleDeploy(194, CPCAR, "prod", "Prod", NoKeys, TRUE),
       RoleDeploy(199, CFDR,  "prod", "Prod", NoKeys, TRUE),
       Build(207),
       CdkDeploy(214, "PipelineDeploymentStack", "pipeline", TRUE),
       Capture(220, "KEY_ARN", "KeyArn"),
       KeyCheck(224, 226, "KEY_ARN"),
       RoleDeploy(231, CPCAR, "beta", "Beta", OneKey, TRUE),
       RoleDeploy(237, CFDR,  "beta", "Beta", OneKey, TRUE),
       RoleDeploy(243, CFDR,  "prod", "Prod", OneKey, TRUE),
       RoleDeploy(249, CPCAR, "prod", "Prod", OneKey, FALSE),
       GitPush(257),
       Cleanup(267) >>

\* scripts/automate_deployment.sh, lines 163-267: three of the four role
\* deploys of each round end in &, one pipeline stack, one key ARN
ScriptFirst ==
    << Prereq(172, 177),
       RoleDeploy(182, CPCAR, "beta", "Beta", NoKeys, TRUE),
       RoleDeploy(188, CFDR,  "beta", "Beta", NoKeys, TRUE),
       RoleDeploy(194, CPCAR, "prod", "Prod", NoKeys, TRUE),
       RoleDeploy(199, CFDR,  "prod", "Prod", NoKeys, FALSE),
       Build(207),
       CdkDeploy(214, "PipelineDeploymentStack", "pipeline", TRUE),
       Capture(220, "KEY_ARN", "KeyArn"),
       KeyCheck(224, 226, "KEY_ARN"),
       RoleDeploy(231, CPCAR, "beta", "Beta", OneKey, TRUE),
       RoleDeploy(237, CFDR,  "beta", "Beta", OneKey, TRUE),
       RoleDeploy(243, CFDR,  "prod", "Prod", OneKey, TRUE),
       RoleDeploy(249, CPCAR, "prod", "Prod", OneKey, FALSE),
       GitPush(257),
       Cleanup(267) >>

\* the version that deploys the website bucket and domain stacks before
\* the pipeline stacks: role deploys with &, three pipeline stacks
ScriptWebsite ==
    << Prereq(10, 15),
       RoleDeploy(20, CPCAR, "beta", "Beta", NoKeys, TRUE),
       RoleDeploy(26, CFDR,  "beta", "Beta", NoKeys, TRUE),
       RoleDeploy(32, CPCAR, "prod", "Prod", NoKeys, TRUE),
       RoleDeploy(37, CFDR,  "prod", "Prod", NoKeys, FALSE),
       Build(45),
       CdkDeploy(51, "WebsiteBetaus-west-2BucketStack", "beta", FALSE),
       CdkDeploy(55, "WebsiteProdus-west-2BucketStack", "prod", FALSE),
       CdkDeploy(61, "WebsiteBetaus-west-2Domainqandmedating-comStack", "beta", FALSE),
       CdkDeploy(69, "PipelineDeploymentStack", "pipeline", TRUE),
       Capture(75, "KEY_ARN", "KeyArn"),
       KeyCheck(79, 81, "KEY_ARN"),
       CdkDeploy(86, "FrontEndPipelineDeploymentStack", "pipeline", TRUE),
       Capture(92, "FRONT_END_KEY_ARN", "KeyArn"),
       KeyCheck(96, 98, "FRONT_END_KEY_ARN"),
       CdkDeploy(103, "WebsitePipelineStack", "pipeline", TRUE),
       Capture(109, "WEBSITE_KEY_ARN", "WebsiteArtifactBucketEncryptionKeyArn"),
       KeyCheck(113, 115, "WEBSITE_KEY_ARN"),
       RoleDeploy(120, CPCAR, "beta", "Beta", ThreeKeys, TRUE),
       RoleDeploy(126, CFDR,  "beta", "Beta", ThreeKeys, TRUE),
       RoleDeploy(132, CFDR,  "prod", "Prod", ThreeKeys, TRUE),
       RoleDeploy(138, CPCAR, "prod", "Prod", ThreeKeys, FALSE),
       GitPush(146),
       Describe(157, "WebsiteBetaus-west-2BucketStack", "beta"),
       Describe(159, "WebsiteProdus-west-2BucketStack", "prod"),
       Describe(164, "WebsiteBetaus-west-2Domainqandmedating-comStack", "beta"),
       Describe(166, "WebsiteBetaus-west-2Domainqandmedating-comStack", "beta"),
       Cleanup(170) >>

Program(v) ==
    CASE v = "current" -> ScriptCurrent
      [] v = "first"   -> ScriptFirst
      [] v = "website" -> ScriptWebsite

Prog == Program(variant)
AtEnd == pc = Len(Prog) + 1
Cmd == Prog[pc]
Running == exitStatus = -1

\* ---- the text the cdk deploy command prints, and its scraping ----

Line(text, f3) == [text |-> text, f3 |-> f3]

\* the CfnOutput constructs of the three pipeline stacks
StackOutputs(stack) ==
    CASE stack = "PipelineDeploymentStack" ->
           << Line("ArtifactBucketEncryptionKeyArn", "arn:aws:kms:backend") >>
      [] stack = "FrontEndPipelineDeploymentStack" ->
           << Line("FrontEndArtifactBucketEncryptionKeyArn", "arn:aws:kms:frontend") >>
      [] stack = "WebsitePipelineStack" ->
           << Line("WebsiteArtifactBucketEncryptionKeyArn", "arn:aws:kms:website"),
              Line("WebsiteArtifactBucketArn", "arn:aws:s3:::website-artifacts"),
              Line("BetaWebsiteUrl", "https://beta.qandmedating.com"),
              Line("BetaInvalidationCommand", "aws"),
              Line("ProdWebsiteUrl", "https://qandmedating.com"),
              Line("ProdInvalidationCommand", "aws") >>
      [] OTHER -> << >>

\* what `cdk deploy` writes to its output: on success the progress lines,
\* the Outputs: section, an empty line and the stack ARN; on failure the
\* progress lines and the error
CdkDeployOutput(stack, ok) ==
    IF ok
    THEN << Line("deploying", "") >> \o << Line("Outputs:", "") >>
         \o StackOutputs(stack) \o << Line("", "") >>
         \o << Line("Stack ARN:", "") >>
    ELSE << Line("deploying", ""), Line("failed", "Error:") >>

\* regular-expression match of a pattern against the text of a line
Matches(pat, text) ==
    CASE pat = "Outputs:" -> text = "Outputs:"
      [] pat = "KeyArn" ->
           text \in {"ArtifactBucketEncryptionKeyArn",
                     "FrontEndArtifactBucketEncryptionKeyArn",
                     "WebsiteArtifactBucketEncryptionKeyArn"}
      [] pat = "WebsiteArtifactBucketEncryptionKeyArn" ->
           text = "WebsiteArtifactBucketEncryptionKeyArn"
      [] OTHER -> FALSE

\* sed -n -e '/Outputs:/,/^$/ p' : the lines from one matching Outputs:
\* through the next empty line
RECURSIVE SedRange(_, _)
SedRange(lines, inRange) ==
    IF lines = << >> THEN << >>
    ELSE LET l == Head(lines) IN
         IF inRange
         THEN << l >> \o SedRange(Tail(lines), l.text # "")
         ELSE IF Matches("Outputs:", l.text)
              THEN << l >> \o SedRange(Tail(lines), TRUE)
              ELSE SedRange(Tail(lines), FALSE)

\* awk -F " " '/pat/ { print $3 }' : the third field of each matching line
RECURSIVE AwkPrint3(_, _)
AwkPrint3(pat, lines) ==
    IF lines = << >> THEN << >>
    ELSE IF Matches(pat, Head(lines).text)
         THEN << Head(lines).f3 >> \o AwkPrint3(pat, Tail(lines))
         ELSE AwkPrint3(pat, Tail(lines))

\* $( ... ) : the printed lines; a value is the sequence of its lines
CommandSubst(printed) == SelectSeq(printed, LAMBDA s : s # "")

\* [[ -z "${VAR}" ]]
IsEmptyValue(v) == v = << >>

\* NAME=${VAR} unquoted: the first word joins NAME=
FirstWord(v) == IF v = << >> THEN "" ELSE Head(v)

\* ---- the prerequisite check ----

\* the check with its last operand forgotten
PrereqFails_twoOnly(e) ==
    \/ e["PIPELINE_ACCOUNT_ID"] = ""
    \/ e["BETA_ACCOUNT_ID"] = ""

\* [[ -z "${PIPELINE_ACCOUNT_ID}" || -z "${BETA_ACCOUNT_ID}" || -z "${PROD_ACCOUNT_ID}" ]]
PrereqFails(e) ==
    \/ e["PIPELINE_ACCOUNT_ID"] = ""
    \/ e["BETA_ACCOUNT_ID"] = ""
    \/ e["PROD_ACCOUNT_ID"] = ""

\* only the first of the key checks present
KeyCheckFails_firstOnly(var, sv) == var = "KEY_ARN" /\ IsEmptyValue(sv[var])

\* [[ -z "${KEY_ARN}" ]] and its two siblings
KeyCheckFails(var, sv) == IsEmptyValue(sv[var])

\* the exit status of the printf that precedes each `exit`
printf_status(fmt) == 0

\* `exit` with no argument: the status of the last command executed
BareExit(status) == status

\* the overrides with WebsiteKeyArn left out
Overrides_noWebsiteKey(cmd, e, sv) ==
    { <<"PipelineAccountID", e["PIPELINE_ACCOUNT_ID"]>>, <<"Stage", cmd.stage>> }
    \cup { << cmd.keys[k][1], FirstWord(sv[cmd.keys[k][2]]) >> :
             k \in { j \in 1..Len(cmd.keys) : cmd.keys[j][1] # "WebsiteKeyArn" } }

\* --parameter-overrides of a role deploy command
Overrides(cmd, e, sv) ==
    { <<"PipelineAccountID", e["PIPELINE_ACCOUNT_ID"]>>, <<"Stage", cmd.stage>> }
    \cup { << cmd.keys[k][1], FirstWord(sv[cmd.keys[k][2]]) >> : k \in 1..Len(cmd.keys) }

\* ---- state after the shell has started the script ----

ScriptInit ==
    /\ variant \in Variants
    /\ env \in [EnvNames -> AccountValues]
    /\ pc = 1
    /\ waiting = FALSE
    /\ inflight = {}
    /\ finished = {}
    /\ bgjobs = {}
    /\ started = {}
    /\ passed = << >>
    /\ shvars = [v \in ShellVars |-> << >>]
    /\ cdkOutputFile = << >>
    /\ lastStatus = 0
    /\ exitStatus = -1
    /\ exitLine = 0

Ready == Running /\ ~waiting /\ ~AtEnd

Exit(line, status) ==
    /\ exitStatus' = BareExit(status)
    /\ exitLine' = line
    /\ lastStatus' = status

\* the if at the top of the script
PrereqCheck ==
    /\ Ready /\ Cmd.op = "prereq"
    /\ IF PrereqFails(env)
       THEN /\ Exit(Cmd.exitAt, printf_status("PROD_ACCOUNT_ID"))
            /\ UNCHANGED pc
       ELSE /\ pc' = pc + 1
            /\ lastStatus' = 0
            /\ UNCHANGED <<exitStatus, exitLine>>
    /\ UNCHANGED <<variant, env, waiting, inflight, finished, bgjobs,
                   started, passed, shvars, cdkOutputFile>>
    /\ UNCHANGED <<pipeVars, tsVars>>

\* aws cloudformation deploy ... [&]
RoleDeployStart ==
    /\ Ready /\ Cmd.op = "role_deploy"
    /\ inflight' = inflight \cup {pc}
    /\ started' = started \cup {pc}
    /\ passed' = passed @@ (pc :> Overrides(Cmd, env, shvars))
    /\ IF Cmd.bg
       THEN /\ bgjobs' = bgjobs \cup {pc}
            /\ pc' = pc + 1
            /\ lastStatus' = 0
            /\ UNCHANGED waiting
       ELSE /\ waiting' = TRUE
            /\ UNCHANGED <<bgjobs, pc, lastStatus>>
    /\ UNCHANGED <<variant, env, finished, shvars, cdkOutputFile,
                   exitStatus, exitLine>>
    /\ UNCHANGED <<pipeVars, tsVars>>

\* a foreground role deploy returns; the shell goes on
RoleDeployReturn ==
    /\ Running /\ waiting /\ Cmd.op = "role_deploy"
    /\ \E st \in {0, 1} : lastStatus' = st
    /\ inflight' = inflight \ {pc}
    /\ finished' = finished \cup {pc}
    /\ waiting' = FALSE
    /\ pc' = pc + 1
    /\ UNCHANGED <<variant, env, bgjobs, started, passed, shvars,
                   cdkOutputFile, exitStatus, exitLine>>
    /\ UNCHANGED <<pipeVars, tsVars>>

\* a background job completes, whether or not the script still runs
BackgroundFinish ==
    /\ \E j \in inflight \cap bgjobs :
          /\ inflight' = inflight \ {j}
          /\ finished' = finished \cup {j}
    /\ UNCHANGED <<variant, env, pc, waiting, bgjobs, started, passed,
                   shvars, cdkOutputFile, lastStatus, exitStatus, exitLine>>
    /\ UNCHANGED <<pipeVars, tsVars>>

\* npm install; npm audit fix; npm run build (and rm/mkdir or cdk synth)
BuildStep ==
    /\ Ready /\ Cmd.op = "build"
    /\ \E st \in {0, 1} : lastStatus' = st
    /\ pc' = pc + 1
    /\ UNCHANGED <<variant, env, waiting, inflight, finished, bgjobs,
                   started, passed, shvars, cdkOutputFile, exitStatus,
                   exitLine>>
    /\ UNCHANGED <<pipeVars, tsVars>>

\* [rm -rf ${CDK_OUTPUT_FILE} .cfn_outputs;] npx cdk deploy ... [| tee -a]
CdkDeployStart ==
    /\ Ready /\ Cmd.op = "cdk_deploy"
    /\ inflight' = inflight \cup {pc}
    /\ started' = started \cup {pc}
    /\ cdkOutputFile' = IF Cmd.tee THEN << >> ELSE cdkOutputFile
    /\ waiting' = TRUE
    /\ UNCHANGED <<variant, env, pc, finished, bgjobs, passed, shvars,
                   lastStatus, exitStatus, exitLine>>
    /\ UNCHANGED <<pipeVars, tsVars>>

\* cdk deploy returns; with | tee -a its output is appended to the file
\* and $? is the status of tee
CdkDeployReturn ==
    /\ Running /\ waiting /\ Cmd.op = "cdk_deploy"
    /\ \E ok \in BOOLEAN :
          /\ cdkOutputFile' = IF Cmd.tee
                              THEN cdkOutputFile \o CdkDeployOutput(Cmd.stack, ok)
                              ELSE cdkOutputFile
          /\ lastStatus' = IF Cmd.tee \/ ok THEN 0 ELSE 1
    /\ inflight' = inflight \ {pc}
    /\ finished' = finished \cup {pc}
    /\ waiting' = FALSE
    /\ pc' = pc + 1
    /\ UNCHANGED <<variant, env, bgjobs, started, passed, shvars,
                   exitStatus, exitLine>>
    /\ UNCHANGED <<pipeVars, tsVars>>

\* sed ... > .cfn_outputs ; VAR=$(awk ... .cfn_outputs)
CaptureStep ==
    /\ Ready /\ Cmd.op = "capture"
    /\ LET cfn_outputs == SedRange(cdkOutputFile, FALSE)
       IN  shvars' = [shvars EXCEPT
                        ![Cmd.var] = CommandSubst(AwkPrint3(Cmd.pat, cfn_outputs))]
    /\ lastStatus' = 0
    /\ pc' = pc + 1
    /\ UNCHANGED <<variant, env, waiting, inflight, finished, bgjobs,
                   started, passed, cdkOutputFile, exitStatus, exitLine>>
    /\ UNCHANGED <<pipeVars, tsVars>>

\* if [[ -z "${VAR}" ]]; then printf ...; exit; fi
KeyCheckStep ==
    /\ Ready /\ Cmd.op = "keycheck"
    /\ IF KeyCheckFails(Cmd.var, shvars)
       THEN /\ Exit(Cmd.exitAt, printf_status("Something went wrong"))
            /\ UNCHANGED pc
       ELSE /\ pc' = pc + 1
            /\ lastStatus' = 0
            /\ UNCHANGED <<exitStatus, exitLine>>
    /\ UNCHANGED <<variant, env, waiting, inflight, finished, bgjobs,
                   started, passed, shvars, cdkOutputFile>>
    /\ UNCHANGED <<pipeVars, tsVars>>

\* git add . && git commit -m "Automated Commit" && git push
GitPushStart ==
    /\ Ready /\ Cmd.op = "git_push"
    /\ started' = started \cup {pc}
    /\ inflight' = inflight \cup {pc}
    /\ waiting' = TRUE
    /\ UNCHANGED <<variant, env, pc, finished, bgjobs, passed, shvars,
                   cdkOutputFile, lastStatus, exitStatus, exitLine>>
    /\ UNCHANGED <<pipeVars, tsVars>>

GitPushReturn ==
    /\ Running /\ waiting /\ Cmd.op = "git_push"
    /\ \E st \in {0, 1} : lastStatus' = st
    /\ inflight' = inflight \ {pc}
    /\ finished' = finished \cup {pc}
    /\ waiting' = FALSE
    /\ pc' = pc + 1
    /\ UNCHANGED <<variant, env, bgjobs, started, passed, shvars,
                   cdkOutputFile, exitStatus, exitLine>>
    /\ UNCHANGED <<pipeVars, tsVars>>

\* printf "... $(aws cloudformation describe-stacks ...)"
DescribeStep ==
    /\ Ready /\ Cmd.op = "describe"
    /\ started' = started \cup {pc}
    /\ finished' = finished \cup {pc}
    /\ lastStatus' = 0
    /\ pc' = pc + 1
    /\ UNCHANGED <<variant, env, waiting, inflight, bgjobs, passed, shvars,
                   cdkOutputFile, exitStatus, exitLine>>
    /\ UNCHANGED <<pipeVars, tsVars>>

\* rm [-f] ${CDK_OUTPUT_FILE} .cfn_outputs
CleanupStep ==
    /\ Ready /\ Cmd.op = "cleanup"
    /\ cdkOutputFile' = << >>
    /\ \E st \in {0, 1} : lastStatus' = st
    /\ pc' = pc + 1
    /\ UNCHANGED <<variant, env, waiting, inflight, finished, bgjobs,
                   started, passed, shvars, exitStatus, exitLine>>
    /\ UNCHANGED <<pipeVars, tsVars>>

\* the shell reaches the end of the file
ScriptEnd ==
    /\ Running /\ ~waiting /\ AtEnd
    /\ exitStatus' = lastStatus
    /\ exitLine' = 0
    /\ UNCHANGED <<variant, env, pc, waiting, inflight, finished, bgjobs,
                   started, passed, shvars, cdkOutputFile, lastStatus>>
    /\ UNCHANGED <<pipeVars, tsVars>>

ScriptNext ==
    \/ PrereqCheck
    \/ RoleDeployStart
    \/ RoleDeployReturn
    \/ BackgroundFinish
    \/ BuildStep
    \/ CdkDeployStart
    \/ CdkDeployReturn
    \/ CaptureStep
    \/ KeyCheckStep
    \/ GitPushStart
    \/ GitPushReturn
    \/ DescribeStep
    \/ CleanupStep
    \/ ScriptEnd

(***************************************************************************)
(* Part II.  The pipelines declared by the pipeline stacks                 *)
(***************************************************************************)

\* an action of a stage; runOrder 0 stands for "no runOrder property"
Act(name, kind, runOrder) == [name |-> name, kind |-> kind, runOrder |-> runOrder]
Stage(name, actions) == [stageName |-> name, actions |-> actions]

GitHubSource   == "GitHubSourceAction"
CodeBuild      == "CodeBuildAction"
CloudFormation == "CloudFormationCreateUpdateStackAction"
S3Deploy       == "S3DeployAction"
LambdaInvoke   == "LambdaInvokeAction"
ManualApproval == "ManualApprovalAction"

\* ---- stacks/pipelineStack.ts : PipelineStack ----
PipelineStack ==
    << Stage("Source", << Act("GitHub_Source", GitHubSource, 0) >>),
       Stage("Build", << Act("Application_Build", CodeBuild, 0),
                         Act("CDK_Synth", CodeBuild, 0) >>),
       Stage("Deploy_Beta", << Act("Deploy", CloudFormation, 0) >>),
       Stage("Deploy_Prod", << Act("Deploy", CloudFormation, 0) >>) >>

\* ---- stacks/pipelineStack.ts : FrontendPipelineStack (first version) ----
FrontendPipelineStackFirst ==
    << Stage("Source", << Act("GIDatingFrontend", GitHubSource, 0),
                          Act("GIDatingServiceCDK", GitHubSource, 0) >>),
       Stage("Initial_Build", << Act("CDK_Synth", CodeBuild, 0),
                                 Act("FrontEnd_Build", CodeBuild, 0) >>),
       Stage("Pipeline_Update", << Act("SelfMutate", CloudFormation, 0) >>),
       Stage("APK_and_IOS_Builds", << Act("APK_Build", CodeBuild, 0) >>),
       Stage("Deploy_Beta", << Act("DeployDeviceFarmStack", CloudFormation, 0) >>),
       Stage("Manual_Approval", << Act("Approve", ManualApproval, 0) >>),
       Stage("Deploy_Prod", << Act("DeployDeviceFarmStack", CloudFormation, 0) >>) >>

\* ---- stacks/frontend/frontendPipelineStack.ts : FrontendPipelineStack ----
FrontendPipelineStack ==
    << Stage("Source", << Act("GIDatingFrontend", GitHubSource, 0),
                          Act("GIDatingServiceCDK", GitHubSource, 0) >>),
       Stage("Build", << Act("CDK_Synth", CodeBuild, 0),
                         Act("FrontEnd_Build", CodeBuild, 0) >>),
       Stage("Pipeline_Update", << Act("SelfMutate", CloudFormation, 0) >>),
       Stage("Deploy_Beta", << Act("DeployS3Bucket", CloudFormation, 1),
                               Act("apkFileDeploy", S3Deploy, 2),
                               Act("DeployDeviceFarmStack", CloudFormation, 3),
                               Act("RunDeviceFarmTest", LambdaInvoke, 4),
                               Act("CheckDeviceFarmResults", CodeBuild, 5) >>),
       Stage("Manual_Approval", << Act("Approve", ManualApproval, 0) >>),
       Stage("Deploy_Prod", << Act("DeployDeviceFarmStack", CloudFormation, 0) >>) >>

\* ---- stacks/backend/backendPipelineStack.ts : BackendPipelineStack ----
BackendPipelineStack ==
    << Stage("Source", << Act("GitHub_Source", GitHubSource, 0) >>),
       Stage("Build", << Act("Application_Build", CodeBuild, 0),
                         Act("CDK_Synth", CodeBuild, 0) >>),
       Stage("Pipeline_Update", << Act("SelfMutate", CloudFormation, 0) >>),
       Stage("Deploy_Beta", << Act("DeployServiceStack", CloudFormation, 2),
                               Act("DeployVpcStack", CloudFormation, 1) >>),
       Stage("Manual_Approval", << Act("Approve", ManualApproval, 0) >>),
       Stage("Deploy_Prod", << Act("DeployServiceStack", CloudFormation, 0),
                               Act("DeployVpcStack", CloudFormation, 0) >>) >>

\* ---- stacks/website/websitePipelineStack.ts : PipelineStageFactory ----
createSourceStage ==
    Stage("Source", << Act("GIDatingWebsite", GitHubSource, 0),
                       Act("GIDatingServiceCDK", GitHubSource, 0) >>)

createBuildStage ==
    Stage("Build", << Act("CDK_Synth", CodeBuild, 0),
                      Act("Website_Build", CodeBuild, 0) >>)

createPipelineUpdateStage ==
    Stage("Pipeline_Update", << Act("SelfMutate", CloudFormation, 0) >>)

\* the content synchronised ahead of the stack deployments
createBetaDeployStage_contentFirst ==
    Stage("Deploy_Beta", << Act("PublishAssets", CodeBuild, 1),
                            Act("DeployWebsiteBucket", CloudFormation, 3),
                            Act("DeployBetaDomainConfig", CloudFormation, 4),
                            Act("DeployBetaContactForm", CloudFormation, 5),
                            Act("DeployWebsiteContent", S3Deploy, 2),
                            Act("ManualCacheInvalidation", ManualApproval, 6) >>)

createBetaDeployStage ==
    Stage("Deploy_Beta", << Act("PublishAssets", CodeBuild, 1),
                            Act("DeployWebsiteBucket", CloudFormation, 2),
                            Act("DeployBetaDomainConfig", CloudFormation, 3),
                            Act("DeployBetaContactForm", CloudFormation, 4),
                            Act("DeployWebsiteContent", S3Deploy, 5),
                            Act("ManualCacheInvalidation", ManualApproval, 6) >>)

createApprovalStage ==
    Stage("Manual_Approval", << Act("Approve", ManualApproval, 0) >>)

\* the manual step ahead of the deploy actions
createProdDeployStage_manualFirst ==
    Stage("Deploy_Prod", << Act("PublishAssets", CodeBuild, 2),
                            Act("DeployWebsiteBucket", CloudFormation, 3),
                            Act("DeployProdDomainConfig", CloudFormation, 4),
                            Act("DeployProdContactForm", CloudFormation, 5),
                            Act("DeployWebsiteContent", S3Deploy, 6),
                            Act("ManualCacheInvalidation", ManualApproval, 1) >>)

createProdDeployStage ==
    Stage("Deploy_Prod", << Act("PublishAssets", CodeBuild, 1),
                            Act("DeployWebsiteBucket", CloudFormation, 2),
                            Act("DeployProdDomainConfig", CloudFormation, 3),
                            Act("DeployProdContactForm", CloudFormation, 4),
                            Act("DeployWebsiteContent", S3Deploy, 5),
                            Act("ManualCacheInvalidation", ManualApproval, 6) >>)

\* WebsitePipelineStack constructor: the stages array
WebsitePipelineStack ==
    << createSourceStage, createBuildStage, createPipelineUpdateStage,
       createBetaDeployStage, createApprovalStage, createProdDeployStage >>

\* ---- earlier versions of WebsitePipelineStack ----
\* bucket, content, cache invalidation in both deploy stages
WebsitePipelineStackV1 ==
    << createSourceStage, createBuildStage, createPipelineUpdateStage,
       Stage("Deploy_Beta", << Act("DeployWebsiteBucket", CloudFormation, 1),
                               Act("DeployWebsiteContent", S3Deploy, 2),
                               Act("InvalidateCloudFrontCache", CodeBuild, 3) >>),
       Stage("Manual_Approval", << Act("Approve", ManualApproval, 0) >>),
       Stage("Deploy_Prod", << Act("DeployWebsiteBucket", CloudFormation, 1),
                               Act("DeployWebsiteContent", S3Deploy, 2),
                               Act("InvalidateCloudFrontCache", CodeBuild, 3) >>) >>

\* domain configuration in beta only
WebsitePipelineStackV2 ==
    << createSourceStage, createBuildStage, createPipelineUpdateStage,
       Stage("Deploy_Beta", << Act("DeployWebsiteBucket", CloudFormation, 1),
                               Act("DeployBetaDomainConfig", CloudFormation, 2),
                               Act("DeployWebsiteContent", S3Deploy, 3),
                               Act("InvalidateCloudFrontCache", CodeBuild, 4) >>),
       Stage("Manual_Approval", << Act("Approve", ManualApproval, 0) >>),
       Stage("Deploy_Prod", << Act("DeployWebsiteBucket", CloudFormation, 1),
                               Act("DeployWebsiteContent", S3Deploy, 2),
                               Act("InvalidateCloudFrontCache", CodeBuild, 3) >>) >>

\* domain configuration in beta and prod
WebsitePipelineStackV3 ==
    << createSourceStage, createBuildStage, createPipelineUpdateStage,
       Stage("Deploy_Beta", << Act("DeployWebsiteBucket", CloudFormation, 1),
                               Act("DeployBetaDomainConfig", CloudFormation, 2),
                               Act("DeployWebsiteContent", S3Deploy, 3),
                               Act("InvalidateCloudFrontCache", CodeBuild, 4) >>),
       Stage("Manual_Approval", << Act("Approve", ManualApproval, 0) >>),
       Stage("Deploy_Prod", << Act("DeployWebsiteBucket", CloudFormation, 1),
                               Act("DeployProdDomainConfig", CloudFormation, 2),
                               Act("DeployWebsiteContent", S3Deploy, 3),
                               Act("InvalidateCloudFrontCache", CodeBuild, 4) >>) >>

PipelineNames ==
    {"PipelineStack", "FrontendPipelineStackFirst", "FrontendPipelineStack",
     "BackendPipelineStack", "WebsitePipelineStack", "WebsitePipelineStackV1",
     "WebsitePipelineStackV2", "WebsitePipelineStackV3"}

Stages(p) ==
    CASE p = "PipelineStack"              -> PipelineStack
      [] p = "FrontendPipelineStackFirst" -> FrontendPipelineStackFirst
      [] p = "FrontendPipelineStack"      -> FrontendPipelineStack
      [] p = "BackendPipelineStack"       -> BackendPipelineStack
      [] p = "WebsitePipelineStack"       -> WebsitePipelineStack
      [] p = "WebsitePipelineStackV1"     -> WebsitePipelineStackV1
      [] p = "WebsitePipelineStackV2"     -> WebsitePipelineStackV2
      [] p = "WebsitePipelineStackV3"     -> WebsitePipelineStackV3

\* ---- execution of the declared pipeline ----

\* number of executions of the pipeline that are followed
MaxExecutions == 2

Executions == 1..MaxExecutions

\* an action without a runOrder property gets runOrder 1
RunOrderOf(a) == IF a.runOrder = 0 THEN 1 ELSE a.runOrder

\* a stage of the array passed over
NextStageIndex_skipOne(s) == s + 2

\* the stage that follows stage s in the stages array
NextStageIndex(s) == s + 1

NoExecution ==
    [status |-> "None", stage |-> 0, running |-> {}, done |-> {},
     approved |-> {}, visited |-> << >>]

Decl == Stages(pipeline)
ActionIds == UNION { 1..Len(Decl[s].actions) : s \in 1..Len(Decl) }
StageOf(e) == Decl[exec[e].stage]
ActionsOf(e) == StageOf(e).actions
\* a failed execution treated as still in progress
InProgress_orFailed(e) == exec[e].status \in {"InProgress", "Failed"}

InProgress(e) == exec[e].status = "InProgress"

\* a stage holds one execution at a time
StageFree(s) == \A e \in Executions : ~(InProgress(e) /\ exec[e].stage = s)

PipelineInit0 ==
    /\ pipeline = "PipelineStack"
    /\ exec = [e \in Executions |-> NoExecution]

PipelineInit ==
    /\ pipeline \in PipelineNames
    /\ exec = [e \in Executions |-> NoExecution]

\* a push to a source repository starts an execution in the first stage
StartExecution(e) ==
    /\ exec[e].status = "None"
    /\ \A d \in Executions : d < e => exec[d].status # "None"
    /\ StageFree(1)
    /\ exec' = [exec EXCEPT ![e] = [status |-> "InProgress", stage |-> 1,
                   running |-> {}, done |-> {}, approved |-> {},
                   visited |-> << Decl[1].stageName >>]]
    /\ UNCHANGED <<pipeline, scriptVars, tsVars>>

\* an action starts once every action of lower runOrder in its stage has
\* succeeded
StartAction(e, a) ==
    /\ InProgress(e)
    /\ a \in 1..Len(ActionsOf(e))
    /\ a \notin exec[e].running \cup exec[e].done
    /\ \A b \in 1..Len(ActionsOf(e)) :
          RunOrderOf(ActionsOf(e)[b]) < RunOrderOf(ActionsOf(e)[a])
              => b \in exec[e].done
    /\ exec' = [exec EXCEPT ![e].running = @ \cup {a}]
    /\ UNCHANGED <<pipeline, scriptVars, tsVars>>

ActionSucceeds(e, a) ==
    /\ a \in exec[e].running
    /\ ActionsOf(e)[a].kind # ManualApproval
    /\ exec' = [exec EXCEPT ![e].running = @ \ {a}, ![e].done = @ \cup {a}]
    /\ UNCHANGED <<pipeline, scriptVars, tsVars>>

ActionFails(e, a) ==
    /\ a \in exec[e].running
    /\ ActionsOf(e)[a].kind # ManualApproval
    /\ exec' = [exec EXCEPT ![e].running = @ \ {a}, ![e].status = "Failed"]
    /\ UNCHANGED <<pipeline, scriptVars, tsVars>>

\* a person approves a ManualApprovalAction
Approve(e, a) ==
    /\ a \in exec[e].running
    /\ ActionsOf(e)[a].kind = ManualApproval
    /\ exec' = [exec EXCEPT ![e].running = @ \ {a}, ![e].done = @ \cup {a},
                            ![e].approved = @ \cup {<<exec[e].stage, a>>}]
    /\ UNCHANGED <<pipeline, scriptVars, tsVars>>

\* a person rejects a ManualApprovalAction
Reject(e, a) ==
    /\ a \in exec[e].running
    /\ ActionsOf(e)[a].kind = ManualApproval
    /\ exec' = [exec EXCEPT ![e].running = @ \ {a}, ![e].status = "Failed"]
    /\ UNCHANGED <<pipeline, scriptVars, tsVars>>

\* every action of the stage has succeeded: the execution enters the next
\* stage of the array, or succeeds after the last one
NextStage(e) ==
    /\ InProgress(e)
    /\ exec[e].done = 1..Len(ActionsOf(e))
    /\ IF exec[e].stage = Len(Decl)
       THEN exec' = [exec EXCEPT ![e].status = "Succeeded"]
       ELSE /\ NextStageIndex(exec[e].stage) <= Len(Decl)
            /\ StageFree(NextStageIndex(exec[e].stage))
            /\ exec' = [exec EXCEPT
                          ![e].stage = NextStageIndex(@),
                          ![e].running = {}, ![e].done = {},
                          ![e].visited = Append(@,
                              Decl[NextStageIndex(exec[e].stage)].stageName)]
    /\ UNCHANGED <<pipeline, scriptVars, tsVars>>

PipelineNext ==
    \/ \E e \in Executions : StartExecution(e)
    \/ \E e \in Executions : \E a \in ActionIds : StartAction(e, a)
    \/ \E e \in Executions : \E a \in ActionIds : ActionSucceeds(e, a)
    \/ \E e \in Executions : \E a \in ActionIds : ActionFails(e, a)
    \/ \E e \in Executions : \E a \in ActionIds : Approve(e, a)
    \/ \E e \in Executions : \E a \in ActionIds : Reject(e, a)
    \/ \E e \in Executions : NextStage(e)

ScriptIdle ==
    /\ variant = "current"
    /\ env = [n \in EnvNames |-> "111122223333"]
    /\ pc = 1
    /\ waiting = FALSE
    /\ inflight = {}
    /\ finished = {}
    /\ bgjobs = {}
    /\ started = {}
    /\ passed = << >>
    /\ shvars = [v \in ShellVars |-> << >>]
    /\ cdkOutputFile = << >>
    /\ lastStatus = 0
    /\ exitStatus = -1
    /\ exitLine = 0

(***************************************************************************)
(* Part III.  The CDK app: configuration table, naming functions, synth    *)
(*                                                                         *)
(* A string is the sequence of its characters, so that replace() and       *)
(* template literals are computed as the code computes them.               *)
(***************************************************************************)

\* ---- utils/constants.ts ----
SERVICE_STACK           == <<"S", "e", "r", "v", "i", "c", "e", "S", "t", "a", "c", "k">>
VPC_STACK               == <<"V", "p", "c", "S", "t", "a", "c", "k">>
DEVICE_FARM_STACK       == <<"D", "e", "v", "i", "c", "e", "F", "a", "r", "m", "S", "t", "a", "c", "k">>
DEPLOYMENT_BUCKET_STACK == <<"D", "e", "p", "l", "o", "y", "m", "e", "n", "t", "B", "u", "c", "k", "e", "t", "S", "t", "a", "c", "k">>
CONTACT_FORM_STACK      == <<"C", "o", "n", "t", "a", "c", "t", "F", "o", "r", "m", "S", "t", "a", "c", "k">>
FRONT_END               == <<"F", "r", "o", "n", "t", "E", "n", "d">>
BACK_END                == <<"B", "a", "c", "k", "E", "n", "d">>
WEBSITE                 == <<"W", "e", "b", "s", "i", "t", "e">>
DOMAIN_NAME             == <<"q", "a", "n", "d", "m", "e", "d", "a", "t", "i", "n", "g", ".", "c", "o", "m">>

\* ---- utils/config.ts ----
STAGES_BETA      == <<"B", "e", "t", "a">>
STAGES_PROD      == <<"P", "r", "o", "d">>
STAGES_BETA_v1   == <<"b", "e", "t", "a">>
STAGES_PROD_v1   == <<"p", "r", "o", "d">>
REGIONS_US_WEST_2 == <<"u", "s", "-", "w", "e", "s", "t", "-", "2">>
REGIONS_US_EAST_1 == <<"u", "s", "-", "e", "a", "s", "t", "-", "1">>

\* s.replace(/c/g, '')
RemoveAll(s, c) == SelectSeq(s, LAMBDA x : x # c)
\* s.replace(/c/g, d)
ReplaceAll(s, c, d) == [i \in 1..Len(s) |-> IF s[i] = c THEN d ELSE s[i]]

UpperCaseLetters ==
    <<"A","B","C","D","E","F","G","H","I","J","K","L","M",
      "N","O","P","Q","R","S","T","U","V","W","X","Y","Z">>
LowerCaseLetters ==
    <<"a","b","c","d","e","f","g","h","i","j","k","l","m",
      "n","o","p","q","r","s","t","u","v","w","x","y","z">>
LowerOf(c) ==
    IF \E k \in 1..Len(UpperCaseLetters) : UpperCaseLetters[k] = c
    THEN LowerCaseLetters[CHOOSE k \in 1..Len(UpperCaseLetters) : UpperCaseLetters[k] = c]
    ELSE c
\* s.toLowerCase()
toLowerCase(s) == [i \in 1..Len(s) |-> LowerOf(s[i])]

\* ---- utils/utils.ts ----
\* the region keeps its hyphens
createServiceStackName_keepHyphens(stage, region) ==
    stage \o region \o SERVICE_STACK

createServiceStackName(stage, region) ==
    stage \o RemoveAll(region, "-") \o SERVICE_STACK

\* the stage of the previous call kept in place of the argument
createVpcStackName_cachedStage(stage, region, account) ==
    account \o (IF lastCall.fn = "" THEN stage ELSE lastCall.args[1])
        \o RemoveAll(region, "-") \o VPC_STACK

createVpcStackName(stage, region, account) ==
    account \o stage \o RemoveAll(region, "-") \o VPC_STACK

\* the stage ahead of the account prefix
createDeviceFarmStackName_stageFirst(stage, region, account) ==
    stage \o account \o RemoveAll(region, "-") \o DEVICE_FARM_STACK

createDeviceFarmStackName(stage, region, account) ==
    account \o stage \o RemoveAll(region, "-") \o DEVICE_FARM_STACK

createDeploymentBucketStackName(stage, region, account) ==
    account \o stage \o RemoveAll(region, "-") \o DEPLOYMENT_BUCKET_STACK

createWebsiteBucketStackName(stage, region, prefix) ==
    prefix \o stage \o region \o <<"B", "u", "c", "k", "e", "t", "S", "t", "a", "c", "k">>

createDomainConfigStackName(stage, region, prefix, domain) ==
    prefix \o stage \o region \o <<"D", "o", "m", "a", "i", "n">> \o domain \o <<"S", "t", "a", "c", "k">>

\* the contact form stack named as the service stack
createContactFormStackName_asService(stage, region) ==
    stage \o RemoveAll(region, "-") \o SERVICE_STACK

createContactFormStackName(stage, region) ==
    stage \o RemoveAll(region, "-") \o CONTACT_FORM_STACK

\* ---- calls of the naming functions ----

\* arguments the callers pass
StageInputs  == {STAGES_BETA, STAGES_PROD}
\* the regions of utils/config.ts and an arbitrary string
RegionInputs == {REGIONS_US_WEST_2, REGIONS_US_EAST_1, <<"u", "s", "w", "e", "s", "t", "2">>}
PrefixInputs == {FRONT_END, BACK_END, WEBSITE}
DomainInputs == {ReplaceAll(DOMAIN_NAME, ".", "-")}

NoCall == [fn |-> "", args |-> << >>, result |-> << >>]

NamingIdle ==
    /\ lastCall = NoCall
    /\ observed = NoCall
    /\ interleaved = FALSE

\* a call returns; lastCall is the call, observed an earlier call kept for
\* comparison, interleaved tells that another call was made after it
Returned(fn, args, result) ==
    LET call == [fn |-> fn, args |-> args, result |-> result] IN
    /\ lastCall' = call
    /\ IF observed = NoCall
       THEN observed' \in {NoCall, call} /\ UNCHANGED interleaved
       ELSE /\ UNCHANGED observed
            /\ interleaved' = (interleaved
                                 \/ call.fn # observed.fn
                                 \/ call.args # observed.args)
    /\ UNCHANGED <<scriptVars, pipeVars, appVars, runVars>>

CallCreateServiceStackName ==
    \E stage \in StageInputs, region \in RegionInputs :
        Returned("createServiceStackName", <<stage, region>>,
                 createServiceStackName(stage, region))

CallCreateVpcStackName ==
    \E stage \in StageInputs, region \in RegionInputs, account \in PrefixInputs :
        Returned("createVpcStackName", <<stage, region, account>>,
                 createVpcStackName(stage, region, account))

CallCreateDeviceFarmStackName ==
    \E stage \in StageInputs, region \in RegionInputs, account \in PrefixInputs :
        Returned("createDeviceFarmStackName", <<stage, region, account>>,
                 createDeviceFarmStackName(stage, region, account))

CallCreateDeploymentBucketStackName ==
    \E stage \in StageInputs, region \in RegionInputs, account \in PrefixInputs :
        Returned("createDeploymentBucketStackName", <<stage, region, account>>,
                 createDeploymentBucketStackName(stage, region, account))

CallCreateWebsiteBucketStackName ==
    \E stage \in StageInputs, region \in RegionInputs, prefix \in PrefixInputs :
        Returned("createWebsiteBucketStackName", <<stage, region, prefix>>,
                 createWebsiteBucketStackName(stage, region, prefix))

CallCreateDomainConfigStackName ==
    \E stage \in StageInputs, region \in RegionInputs, prefix \in PrefixInputs,
       domain \in DomainInputs :
        Returned("createDomainConfigStackName", <<stage, region, prefix, domain>>,
                 createDomainConfigStackName(stage, region, prefix, domain))

CallCreateContactFormStackName ==
    \E stage \in StageInputs, region \in RegionInputs :
        Returned("createContactFormStackName", <<stage, region>>,
                 createContactFormStackName(stage, region))

NamingNext ==
    \/ CallCreateServiceStackName
    \/ CallCreateVpcStackName
    \/ CallCreateDeviceFarmStackName
    \/ CallCreateDeploymentBucketStackName
    \/ CallCreateWebsiteBucketStackName
    \/ CallCreateDomainConfigStackName
    \/ CallCreateContactFormStackName

\* ---- utils/config.ts : stageConfigurationList ----

\* betaAccountId and prodAccountId of utils/accounts
AccountIdInputs == {<<"1", "1", "1", "1", "2", "2", "2", "2", "3", "3", "3", "3">>, <<"4", "4", "4", "4", "5", "5", "5", "5", "6", "6", "6", "6">>}

\* first version of utils/config.ts
StageConfigurationListV1(acc) ==
    << [accountId |-> acc.beta, stage |-> STAGES_BETA_v1,
        region |-> REGIONS_US_WEST_2, isProd |-> FALSE],
       [accountId |-> acc.prod, stage |-> STAGES_PROD_v1,
        region |-> REGIONS_US_WEST_2, isProd |-> TRUE] >>

\* current version of utils/config.ts
StageConfigurationList(acc) ==
    << [accountId |-> acc.beta, stage |-> STAGES_BETA,
        region |-> REGIONS_US_WEST_2, isProd |-> FALSE],
       [accountId |-> acc.prod, stage |-> STAGES_PROD,
        region |-> REGIONS_US_WEST_2, isProd |-> TRUE] >>

\* ---- app.ts ----

AppVersions == {"current", "first"}
ListNames ==
    {"backendServiceStackList", "frontendServiceStackList",
     "websiteServiceStackList", "serviceStackList"}

\* list.unshift(rec)
Push_unshift(list, rec) == << rec >> \o list

\* list.push(rec)
Push(list, rec) == Append(list, rec)

\* list[k], k counted from 0
ElementAt(list, k) == list[k + 1]

\* the const of the loop body takes the place of the imported binding
BlockScopedConst_assigned(outer, inner) == << inner >>

\* value of the imported binding stageConfigurationList after the loop body
\* declared a block-scoped const of the same name
BlockScopedConst(outer, inner) == outer

\* the loop variable: a reference to a record of stageConfigurationList
stageConfig == stageConfigurationList[ai]

AppIdle ==
    /\ appVersion = "current"
    /\ accounts = [a \in {"beta", "prod"} |-> <<"1", "1", "1", "1", "2", "2", "2", "2", "3", "3", "3", "3">>]
    /\ cdkDefaultAccount = << >>
    /\ apc = "done"
    /\ ai = 1
    /\ stageConfigurationList = StageConfigurationList(accounts)
    /\ lists = [n \in ListNames |-> << >>]
    /\ app = {}
    /\ built = {}

AppInit ==
    /\ appVersion \in AppVersions
    /\ accounts \in [{"beta", "prod"} -> AccountIdInputs]
    /\ cdkDefaultAccount \in {<< >>} \cup AccountIdInputs
    /\ apc = IF appVersion = "first" THEN "service" ELSE "websiteConfig"
    /\ ai = 1
    /\ stageConfigurationList =
          IF appVersion = "first" THEN StageConfigurationListV1(accounts)
                                  ELSE StageConfigurationList(accounts)
    /\ lists = [n \in ListNames |-> << >>]
    /\ app = {}
    /\ built = {}

\* for (var stageConfig of stageConfigurationList): the next record, or the
\* statement after the loop
NextIteration(loopStart, afterLoop) ==
    IF ai < Len(stageConfigurationList)
    THEN apc' = loopStart /\ ai' = ai + 1
    ELSE apc' = afterLoop /\ ai' = 1

\* new XStack(app, id, props): a second construct with the same id throws
NewStack(id, kind) ==
    app' = app \cup {[id |-> id, kind |-> kind, stage |-> stageConfig.stage,
                      region |-> stageConfig.region]}

IdTaken(id) == \E s \in app : s.id = id

AppFrame == UNCHANGED <<appVersion, accounts, cdkDefaultAccount>>
NotApp == UNCHANGED <<scriptVars, pipeVars, namingVars, runVars>>

\* new XStack(app, id, props), then go on as advance says
ConstructStack(id, kind, advance) ==
    IF IdTaken(id)
    THEN apc' = "threw" /\ UNCHANGED <<ai, app>>
    ELSE NewStack(id, kind) /\ advance

\* app.ts 53-80: the website configuration of one stage record
WebsiteConfigStep ==
    /\ apc = "websiteConfig"
    /\ LET bucketNamePrefix ==
               <<"w", "e", "b", "s", "i", "t", "e", "-">> \o toLowerCase(stageConfig.stage) \o <<"-">>
                   \o stageConfig.accountId
           uniqueBucketName == bucketNamePrefix \o <<"-">> \o stageConfig.region
           stageIndex == IF toLowerCase(stageConfig.stage) = <<"b", "e", "t", "a">> THEN 0 ELSE 1
           websiteStageConfigurationList ==
               [config |-> ai,
                websiteBucketArn |-> <<"a", "r", "n", ":", "a", "w", "s", ":", "s", "3", ":", ":", ":">> \o uniqueBucketName,
                websiteBucketName |-> uniqueBucketName,
                distributionId |-> <<"E", "3", "5", "H", "C", "1", "7", "V", "O", "Z", "G", "C", "7", "F">>,
                distributionDomainName |-> <<"h", "t", "t", "p", "s", ":", "/", "/", "d", "e", "8", "3", "3", "z", "6", "i", "c", "j", "h", "a", "j", ".", "c", "l", "o", "u", "d", "f", "r", "o", "n", "t", ".", "n", "e", "t">>]
       IN  lists' = [lists EXCEPT !["websiteServiceStackList"] =
                        Push(@, IF stageIndex = 0
                                THEN websiteStageConfigurationList
                                ELSE websiteStageConfigurationList)]
    /\ NextIteration("websiteConfig", "websiteBucket")
    /\ UNCHANGED <<stageConfigurationList, app, built>>
    /\ AppFrame /\ NotApp

\* app.ts 87-96
NewWebsiteDeploymentBucketStack ==
    /\ apc = "websiteBucket"
    /\ ConstructStack(
          createWebsiteBucketStackName(stageConfig.stage, stageConfig.region, WEBSITE),
          "WebsiteDeploymentBucketStack",
          apc' = "domainConfig" /\ UNCHANGED ai)
    /\ UNCHANGED <<stageConfigurationList, lists, built>>
    /\ AppFrame /\ NotApp

\* app.ts 100-126
NewDomainConfigurationStack ==
    /\ apc = "domainConfig"
    /\ ConstructStack(
          createDomainConfigStackName(stageConfig.stage, stageConfig.region,
              WEBSITE, ReplaceAll(DOMAIN_NAME, ".", "-")),
          "DomainConfigurationStack",
          apc' = "contactForm" /\ UNCHANGED ai)
    /\ UNCHANGED <<stageConfigurationList, lists, built>>
    /\ AppFrame /\ NotApp

\* app.ts 129-139
NewContactFormStack ==
    /\ apc = "contactForm"
    /\ ConstructStack(
          createContactFormStackName(stageConfig.stage, stageConfig.region),
          "ContactFormStack",
          NextIteration("websiteBucket", "deploymentBucket"))
    /\ UNCHANGED <<stageConfigurationList, lists, built>>
    /\ AppFrame /\ NotApp

\* app.ts 147-155
NewDeploymentBucketStack ==
    /\ apc = "deploymentBucket"
    /\ ConstructStack(
          createDeploymentBucketStackName(stageConfig.stage, stageConfig.region, FRONT_END),
          "DeploymentBucketStack",
          apc' = "deviceFarm" /\ UNCHANGED ai)
    /\ UNCHANGED <<stageConfigurationList, lists, built>>
    /\ AppFrame /\ NotApp

\* app.ts 158-169
NewDeviceFarmStack ==
    /\ apc = "deviceFarm"
    /\ LET id == createDeviceFarmStackName(stageConfig.stage, stageConfig.region, FRONT_END)
           frontendStageConfigurationList ==
               [config |-> ai,
                frontEndCodeDeploymentBucketArn |->
                    createDeploymentBucketStackName(stageConfig.stage,
                        stageConfig.region, FRONT_END) \o <<".", "b", "u", "c", "k", "e", "t", "A", "r", "n">>]
       IN  /\ ConstructStack(id, "DeviceFarmStack", apc' = "vpc" /\ UNCHANGED ai)
           /\ lists' = IF IdTaken(id) THEN lists
                       ELSE [lists EXCEPT !["frontendServiceStackList"] =
                                Push(@, frontendStageConfigurationList)]
    /\ UNCHANGED <<stageConfigurationList, built>>
    /\ AppFrame /\ NotApp

\* app.ts 175-179
NewVpcStack ==
    /\ apc = "vpc"
    /\ ConstructStack(
          createVpcStackName(stageConfig.stage, stageConfig.region, BACK_END),
          "VpcStack",
          apc' = "applicationStack" /\ UNCHANGED ai)
    /\ UNCHANGED <<stageConfigurationList, lists, built>>
    /\ AppFrame /\ NotApp

\* app.ts 182-193
NewApplicationStack ==
    /\ apc = "applicationStack"
    /\ LET id == createServiceStackName(stageConfig.stage, stageConfig.region)
           backendStageConfigurationList == [config |-> ai]
       IN  /\ ConstructStack(id, "ApplicationStack",
                  NextIteration("deploymentBucket", "frontendPipeline"))
           /\ lists' = IF IdTaken(id) THEN lists
                       ELSE [lists EXCEPT !["backendServiceStackList"] =
                                Push(@, backendStageConfigurationList)]
    /\ UNCHANGED <<stageConfigurationList, built>>
    /\ AppFrame /\ NotApp

\* process.env.X || fallback
OrElse(value, fallback) == IF value = << >> THEN fallback ELSE value

\* what a pipeline stack constructor reads from its list by position
PipelineRead(id, listName, account) ==
    LET betaConfig == ElementAt(lists[listName], 0)
        prodConfig == ElementAt(lists[listName], 1)
    IN  [id |-> id, list |-> listName, account |-> account,
         betaStage |-> stageConfigurationList[betaConfig.config].stage,
         prodStage |-> stageConfigurationList[prodConfig.config].stage,
         betaAccountId |-> stageConfigurationList[betaConfig.config].accountId,
         prodAccountId |-> stageConfigurationList[prodConfig.config].accountId]

\* app.ts 196-203
NewFrontendPipelineStack ==
    /\ apc = "frontendPipeline"
    /\ built' = built \cup
          {PipelineRead("FrontEndPipelineDeploymentStack", "frontendServiceStackList",
               OrElse(cdkDefaultAccount, ElementAt(stageConfigurationList, 0).accountId))}
    /\ apc' = "websitePipeline"
    /\ UNCHANGED <<ai, stageConfigurationList, lists, app>>
    /\ AppFrame /\ NotApp

\* app.ts 207-214
NewWebsitePipelineStack ==
    /\ apc = "websitePipeline"
    /\ built' = built \cup
          {PipelineRead("WebsitePipelineStack", "websiteServiceStackList",
               OrElse(cdkDefaultAccount, ElementAt(stageConfigurationList, 0).accountId))}
    /\ apc' = "backendPipeline"
    /\ UNCHANGED <<ai, stageConfigurationList, lists, app>>
    /\ AppFrame /\ NotApp

\* app.ts 217-220
NewBackendPipelineStack ==
    /\ apc = "backendPipeline"
    /\ built' = built \cup
          {PipelineRead("PipelineDeploymentStack", "backendServiceStackList", << >>)}
    /\ apc' = "synth"
    /\ UNCHANGED <<ai, stageConfigurationList, lists, app>>
    /\ AppFrame /\ NotApp

\* app.ts 239-255 (first version): the service stack of one stage record
NewApplicationStackFirst ==
    /\ apc = "service"
    /\ LET id == createServiceStackName(stageConfig.stage, stageConfig.region)
           record == [props |-> [stageName |-> stageConfig.stage],
                      stack |-> << id >>,
                      config |-> ai]
       IN  /\ ConstructStack(id, "ApplicationStack", NextIteration("service", "pipeline"))
           /\ stageConfigurationList' = BlockScopedConst(stageConfigurationList, record)
           /\ lists' = IF IdTaken(id) THEN lists
                       ELSE [lists EXCEPT !["serviceStackList"] = Push(@, record)]
    /\ UNCHANGED built
    /\ AppFrame /\ NotApp

\* app.ts 257-261 (first version)
NewPipelineStack ==
    /\ apc = "pipeline"
    /\ built' = built \cup {PipelineRead("PipelineStack", "serviceStackList", << >>)}
    /\ apc' = "synth"
    /\ UNCHANGED <<ai, stageConfigurationList, lists, app>>
    /\ AppFrame /\ NotApp

\* app.synth()
Synth ==
    /\ apc = "synth"
    /\ apc' = "done"
    /\ UNCHANGED <<ai, stageConfigurationList, lists, app, built>>
    /\ AppFrame /\ NotApp

AppNext ==
    \/ WebsiteConfigStep
    \/ NewWebsiteDeploymentBucketStack
    \/ NewDomainConfigurationStack
    \/ NewContactFormStack
    \/ NewDeploymentBucketStack
    \/ NewDeviceFarmStack
    \/ NewVpcStack
    \/ NewApplicationStack
    \/ NewFrontendPipelineStack
    \/ NewWebsitePipelineStack
    \/ NewBackendPipelineStack
    \/ NewApplicationStackFirst
    \/ NewPipelineStack
    \/ Synth

(***************************************************************************)
(* Part IV.  CheckDeviceFarmResults: the script of the                     *)
(*           DeviceFarmResultsProcessor project                            *)
(***************************************************************************)

\* number of objects in the results bucket
MaxObjects == 2

SummaryResults == {"PASSED", "FAILED", "not JSON"}

\* an object of the results bucket: whether its key ends with
\* /summary.json, its LastModified, and the result its body holds
ObjectInputs ==
    [isSummary : BOOLEAN, LastModified : {1, 2}, result : SummaryResults]

\* the buckets listed, in the order of the listing
BucketInputs == UNION { [1..n -> ObjectInputs] : n \in 0..MaxObjects }

DeviceFarmIdle ==
    deviceFarm = [pc |-> "idle", objects |-> << >>, latest |-> 0,
                  error |-> FALSE, exit |-> -1]

DeviceFarmInit ==
    \E objects \in BucketInputs :
        deviceFarm = [pc |-> "describeStacks", objects |-> objects,
                      latest |-> 0, error |-> FALSE, exit |-> -1]

NotDeviceFarm ==
    UNCHANGED <<scriptVars, pipeVars, appVars, namingVars,
                contactForm, cleanup, domainConfig, roleCheck>>

\* process.exit(code)
ProcessExit(code) ==
    deviceFarm' = [deviceFarm EXCEPT !.pc = "exited", !.exit = code]

\* catch (err) { ...; process.exit(0); }
Caught ==
    deviceFarm' = [deviceFarm EXCEPT !.pc = "exited", !.exit = 0, !.error = TRUE]

\* objects.Contents.filter(o => o.Key.endsWith('/summary.json'))
\*     .sort((a, b) => b.LastModified - a.LastModified)[0]
\* the sort is stable: of two objects of one LastModified the one listed
\* first stays first; 0 stands for undefined
LatestFolder(objects) ==
    LET summaries == { i \in 1..Len(objects) : objects[i].isSummary } IN
    IF summaries = {} THEN 0
    ELSE CHOOSE i \in summaries :
            \A j \in summaries :
                \/ objects[j].LastModified < objects[i].LastModified
                \/ objects[j].LastModified = objects[i].LastModified /\ i <= j

\* await cloudformation.describeStacks(...) and the ResultsBucketName output
DescribeStacks ==
    /\ deviceFarm.pc = "describeStacks"
    /\ \E ok \in BOOLEAN :
          IF ok THEN deviceFarm' = [deviceFarm EXCEPT !.pc = "listObjects"]
                ELSE Caught
    /\ NotDeviceFarm

\* await s3.listObjectsV2(...), then the choice of the latest summary
ListObjects ==
    /\ deviceFarm.pc = "listObjects"
    /\ \E ok \in BOOLEAN :
          IF ~ok THEN Caught
          ELSE IF Len(deviceFarm.objects) > 0
               THEN IF LatestFolder(deviceFarm.objects) # 0
                    THEN deviceFarm' = [deviceFarm EXCEPT
                             !.pc = "getObject",
                             !.latest = LatestFolder(deviceFarm.objects)]
                    ELSE ProcessExit(0)
               ELSE ProcessExit(0)
    /\ NotDeviceFarm

\* await s3.getObject(...), JSON.parse, process.exit
GetObject ==
    /\ deviceFarm.pc = "getObject"
    /\ \E ok \in BOOLEAN :
          LET summary == deviceFarm.objects[deviceFarm.latest] IN
          IF ~ok \/ summary.result = "not JSON" THEN Caught
          ELSE ProcessExit(IF summary.result = "PASSED" THEN 0 ELSE 1)
    /\ NotDeviceFarm

DeviceFarmNext ==
    \/ DescribeStacks
    \/ ListObjects
    \/ GetObject

(***************************************************************************)
(* Part V.  The contact-form handler (inline code of ContactFormFunction)  *)
(***************************************************************************)

\* environment: { MAX_ITEMS: '10000' }
MAX_ITEMS == 10000

\* const maxItems = parseInt(process.env.MAX_ITEMS) || 10000;
maxItems == IF MAX_ITEMS # 0 THEN MAX_ITEMS ELSE 10000

\* number of invocations of the handler that may be in flight together
MaxInvocations == 2

Invocations == 1..MaxInvocations

\* event.body once parsed; "" stands for a missing or empty field
BodyInputs ==
    [email   : {"", "a@b.c"},
     name    : {"", "Ann"},
     subject : {"", "Waitlist Registration", "Hello"},
     message : {"", "Hi"}]

\* event.body that JSON.parse rejects
NotJSON == [email |-> "", name |-> "", subject |-> "not JSON", message |-> ""]

EventInputs ==
    [httpMethod : {"OPTIONS", "POST"}, body : BodyInputs \cup {NotJSON}]

NoEvent == [httpMethod |-> "", body |-> NotJSON]

\* item counts of the table when the invocations start
InitialCounts == {0, MAX_ITEMS - 1, MAX_ITEMS}

NotInvoked == [pc |-> "idle", event |-> NoEvent, Count |-> -1, statusCode |-> 0]

NoPut == [event |-> NoEvent, Count |-> -1]

ContactFormIdle ==
    contactForm = [count |-> 0, inv |-> << >>, lastPut |-> NoPut]

ContactFormInit ==
    \E c \in InitialCounts :
        contactForm = [count |-> c,
                       inv |-> [i \in Invocations |-> NotInvoked],
                       lastPut |-> NoPut]

NotContactForm ==
    UNCHANGED <<scriptVars, pipeVars, appVars, namingVars,
                deviceFarm, cleanup, domainConfig, roleCheck>>

\* return { statusCode, ... }: the invocation is over
Return(i, code) ==
    [contactForm.inv EXCEPT ![i] = [NotInvoked EXCEPT !.pc = "done",
                                                      !.statusCode = code]]

\* if (!body.email)
MissingEmail(body) == body.email = ""

\* if (body.subject !== 'Waitlist Registration' &&
\*     (!body.name || !body.subject || !body.message))
MissingFields(body) ==
    /\ body.subject # "Waitlist Registration"
    /\ (body.name = "" \/ body.subject = "" \/ body.message = "")

\* if (countResult.Count >= maxItems)
LimitReached_above(Count) == Count > maxItems

LimitReached(Count) == Count >= maxItems

\* exports.handler up to its first await: the OPTIONS reply, JSON.parse,
\* the two validations, and the call of dynamoDB.scan
Invoke(i) ==
    /\ contactForm.inv # << >>
    /\ contactForm.inv[i].pc = "idle"
    /\ \E event \in EventInputs :
          contactForm' = [contactForm EXCEPT !.inv =
              IF event.httpMethod = "OPTIONS" THEN Return(i, 200)
              ELSE IF event.body = NotJSON THEN Return(i, 500)
              ELSE IF MissingEmail(event.body) THEN Return(i, 400)
              ELSE IF MissingFields(event.body) THEN Return(i, 400)
              ELSE [contactForm.inv EXCEPT ![i] =
                        [NotInvoked EXCEPT !.pc = "scan", !.event = event]]]
    /\ NotContactForm

\* await dynamoDB.scan({ Select: 'COUNT' }).promise() and the limit check;
\* a rejected promise goes to catch (error)
ScanReturns(i) ==
    /\ contactForm.inv # << >>
    /\ contactForm.inv[i].pc = "scan"
    /\ \E ok \in BOOLEAN :
          contactForm' = [contactForm EXCEPT !.inv =
              IF ~ok THEN Return(i, 500)
              ELSE IF LimitReached(contactForm.count) THEN Return(i, 500)
              ELSE [contactForm.inv EXCEPT ![i].pc = "put",
                                           ![i].Count = contactForm.count]]
    /\ NotContactForm

\* await dynamoDB.put({ Item: item }).promise() and the reply; the put adds
\* an item, or replaces the item of the same email and timestamp
PutReturns(i) ==
    /\ contactForm.inv # << >>
    /\ contactForm.inv[i].pc = "put"
    /\ \E ok \in BOOLEAN, added \in {0, 1} :
          /\ added = 0 => contactForm.count > 0
          /\ ~ok => added = 1
          /\ contactForm' =
                IF ~ok THEN [contactForm EXCEPT !.inv = Return(i, 500)]
                ELSE [count |-> contactForm.count + added,
                      inv |-> Return(i, 200),
                      lastPut |-> [event |-> contactForm.inv[i].event,
                                   Count |-> contactForm.inv[i].Count]]
    /\ NotContactForm

ContactFormNext ==
    \E i \in Invocations :
        \/ Invoke(i)
        \/ ScanReturns(i)
        \/ PutReturns(i)

(***************************************************************************)
(* Part VI.  scripts/automate_cleanup.sh                                   *)
(***************************************************************************)

\* the commands of lines 17-33, in the order of the script; background
\* is TRUE for a command that ends in &
CleanupScript ==
    <<
       [kind |-> "delete-stack", stack |-> "BetaApplicationDeploymentStack",
        profile |-> "beta", background |-> TRUE],
       [kind |-> "delete-stack", stack |-> "ProdApplicationDeploymentStack",
        profile |-> "prod", background |-> TRUE],
       [kind |-> "s3 rm", stack |-> "",
        profile |-> "pipeline", background |-> FALSE],
       [kind |-> "cdk destroy", stack |-> "CrossAccountPipelineStack",
        profile |-> "pipeline", background |-> FALSE],
       [kind |-> "delete-stack", stack |-> "CodePipelineCrossAccountRole",
        profile |-> "beta", background |-> TRUE],
       [kind |-> "delete-stack", stack |-> "CodePipelineCrossAccountRole",
        profile |-> "prod", background |-> TRUE],
       [kind |-> "delete-stack", stack |-> "CloudFormationDeploymentRole",
        profile |-> "beta", background |-> TRUE],
       [kind |-> "delete-stack", stack |-> "CloudFormationDeploymentRole",
        profile |-> "prod", background |-> TRUE],
       [kind |-> "cdk destroy", stack |-> "RepositoryStack",
        profile |-> "pipeline", background |-> FALSE]
    >>

\* the stacks the script names, each in the account of its profile
CleanupStacks ==
    { <<CleanupScript[k].stack, CleanupScript[k].profile>> :
        k \in { n \in 1..Len(CleanupScript) : CleanupScript[n].stack # "" } }

AccountIdValues == {"", "111122223333"}

CleanupIdle ==
    cleanup = [run |-> "idle", pc |-> 0, account |-> "", jobs |-> {},
               status |-> << >>]

\* the solution was deployed with automate_deployment.sh: every stack exists
CleanupInit ==
    \E id \in AccountIdValues :
        cleanup = [run |-> "running", pc |-> 0, account |-> id, jobs |-> {},
                   status |-> [s \in CleanupStacks |-> "CREATE_COMPLETE"]]

NotCleanup ==
    UNCHANGED <<scriptVars, pipeVars, appVars, namingVars,
                deviceFarm, contactForm, domainConfig, roleCheck>>

\* if [[ -z "${PIPELINE_ACCOUNT_ID}" ]]; then ...; exit; fi
CleanupPrereqCheck ==
    /\ cleanup.run = "running"
    /\ cleanup.pc = 0
    /\ cleanup' = IF cleanup.account = ""
                  THEN [cleanup EXCEPT !.run = "exited"]
                  ELSE [cleanup EXCEPT !.pc = 1]
    /\ NotCleanup

\* a command ending in &: the shell starts it and goes on to the next line
CleanupStartBackground ==
    /\ cleanup.pc \in 1..Len(CleanupScript)
    /\ CleanupScript[cleanup.pc].background
    /\ cleanup' = [cleanup EXCEPT !.pc = cleanup.pc + 1,
                                  !.jobs = cleanup.jobs \cup {cleanup.pc}]
    /\ NotCleanup

\* aws cloudformation delete-stack of a background job reaches
\* CloudFormation: the deletion of the stack starts and the command returns
CleanupDeleteStackCall ==
    /\ \E j \in cleanup.jobs :
          LET key == <<CleanupScript[j].stack, CleanupScript[j].profile>> IN
          cleanup' = [cleanup EXCEPT
              !.jobs = cleanup.jobs \ {j},
              !.status[key] = IF cleanup.status[key] = "DELETE_COMPLETE"
                              THEN "DELETE_COMPLETE"
                              ELSE "DELETE_IN_PROGRESS"]
    /\ NotCleanup

\* CloudFormation ends a deletion it had started
CloudFormationDeletion ==
    /\ cleanup.run # "idle"
    /\ \E key \in CleanupStacks, outcome \in {"DELETE_COMPLETE", "DELETE_FAILED"} :
          /\ cleanup.status[key] = "DELETE_IN_PROGRESS"
          /\ cleanup' = [cleanup EXCEPT !.status[key] = outcome]
    /\ NotCleanup

\* aws s3 rm ... --recursive (foreground)
CleanupS3Rm ==
    /\ cleanup.pc \in 1..Len(CleanupScript)
    /\ CleanupScript[cleanup.pc].kind = "s3 rm"
    /\ cleanup' = [cleanup EXCEPT !.pc = cleanup.pc + 1]
    /\ NotCleanup

\* cdk destroy <stack> (foreground): returns when the deletion has ended
CleanupCdkDestroy ==
    /\ cleanup.pc \in 1..Len(CleanupScript)
    /\ CleanupScript[cleanup.pc].kind = "cdk destroy"
    /\ LET key == <<CleanupScript[cleanup.pc].stack,
                    CleanupScript[cleanup.pc].profile>> IN
       \E outcome \in {"DELETE_COMPLETE", "DELETE_FAILED"} :
          cleanup' = [cleanup EXCEPT !.pc = cleanup.pc + 1,
                                     !.status[key] = outcome]
    /\ NotCleanup

\* end of file
CleanupEnd ==
    /\ cleanup.run = "running"
    /\ cleanup.pc = Len(CleanupScript) + 1
    /\ cleanup' = [cleanup EXCEPT !.run = "exited"]
    /\ NotCleanup

CleanupNext ==
    \/ CleanupPrereqCheck
    \/ CleanupStartBackground
    \/ CleanupDeleteStackCall
    \/ CloudFormationDeletion
    \/ CleanupS3Rm
    \/ CleanupCdkDestroy
    \/ CleanupEnd

(***************************************************************************)
(* Part VII.  DomainConfigurationStack (both versions of the class)        *)
(***************************************************************************)

DomainConfigVersions == {"current", "first"}

\* props.stageName: the two labels of STAGES and a label in another case
StageNameInputs == {STAGES_BETA, STAGES_PROD, STAGES_PROD_v1}

\* props.deployDistribution?: boolean
DeployDistributionInputs == {"undefined", "true", "false"}

DomainConfigPropsInputs ==
    [stageName : StageNameInputs,
     domainName : {DOMAIN_NAME},
     deployDistribution : DeployDistributionInputs,
     useExistingHostedZone : BOOLEAN,
     certificateArn : BOOLEAN,
     distributionId : BOOLEAN]

NoProps ==
    [stageName |-> << >>, domainName |-> << >>, deployDistribution |-> "undefined",
     useExistingHostedZone |-> FALSE, certificateArn |-> FALSE,
     distributionId |-> FALSE]

DomainConfigIdle ==
    domainConfig = [version |-> "", pc |-> "idle", props |-> NoProps,
                    constructs |-> {}]

\* new DomainConfigurationStack(app, domainConfigStackName, props)
DomainConfigInit ==
    \E v \in DomainConfigVersions, props \in DomainConfigPropsInputs :
        /\ v = "current" => ~props.useExistingHostedZone /\ props.certificateArn
        /\ v = "first" => props.deployDistribution = "undefined"
        /\ domainConfig = [version |-> v, pc |-> "constructor", props |-> props,
                           constructs |-> {}]

NotDomainConfig ==
    UNCHANGED <<scriptVars, pipeVars, appVars, namingVars,
                deviceFarm, contactForm, cleanup, roleCheck>>

\* stageName === STAGES.PROD ? domainName : `${stageName.toLowerCase()}.${domainName}`
formatDomainName(domainName, stageName) ==
    IF stageName = STAGES_PROD THEN domainName
    ELSE toLowerCase(stageName) \o <<".">> \o domainName

\* props.stageName !== STAGES.PROD ||
\*     (props.deployDistribution !== undefined ? props.deployDistribution : true)
shouldDeployDistribution(props) ==
    \/ props.stageName # STAGES_PROD
    \/ IF props.deployDistribution # "undefined"
       THEN props.deployDistribution = "true" ELSE TRUE

\* the constructs createSubdomainDelegation adds to the stack
createSubdomainDelegation_anyCase(stageName) ==
    IF toLowerCase(stageName) = toLowerCase(STAGES_PROD)
    THEN {"BetaSubdomainDelegation", "BetaSubdomainDelegationCreated"}
    ELSE {}

createSubdomainDelegation(stageName) ==
    IF stageName = STAGES_PROD
    THEN {"BetaSubdomainDelegation", "BetaSubdomainDelegationCreated"}
    ELSE {}

Add(ids, next) ==
    domainConfig' = [domainConfig EXCEPT !.constructs = domainConfig.constructs \cup ids,
                                         !.pc = next]

\* constructor of the current version, to the call of createHostedZone
DcCreateHostedZone ==
    /\ domainConfig.version = "current"
    /\ domainConfig.pc = "constructor"
    /\ Add({"HostedZone"}, "createSubdomainDelegation")
    /\ NotDomainConfig

\* this.createSubdomainDelegation(hostedZone)
DcCreateSubdomainDelegation ==
    /\ domainConfig.version = "current"
    /\ domainConfig.pc = "createSubdomainDelegation"
    /\ Add(createSubdomainDelegation(domainConfig.props.stageName),
           IF shouldDeployDistribution(domainConfig.props)
           THEN "createResources" ELSE "hostedZoneOnly")
    /\ NotDomainConfig

\* if (!shouldDeployDistribution) { ...; return; }
DcHostedZoneOnly ==
    /\ domainConfig.version = "current"
    /\ domainConfig.pc = "hostedZoneOnly"
    /\ Add({"HostedZoneId", "DomainName", "NameServers", "NextSteps",
            "DistributionStatus"}, "returned")
    /\ NotDomainConfig

\* bucket reference, origin access identity, certificate, logging
\* resources, bucket policies and CloudFront functions
DcCreateResources ==
    /\ domainConfig.version = "current"
    /\ domainConfig.pc = "createResources"
    /\ Add({"WebsiteBucket", "WebsiteOAI", "CloudFrontLogBucket", "CloudFrontLogGroup"}
           \cup (IF domainConfig.props.stageName = STAGES_BETA
                 THEN {"ExistingCertificate"} ELSE {})
           \cup {"SPARedirectFunction"}
           \cup (IF domainConfig.props.stageName = STAGES_BETA
                 THEN {"BasicAuthFunction"} ELSE {}),
           "createDistribution")
    /\ NotDomainConfig

\* this.createDistribution(...)
DcCreateDistribution ==
    /\ domainConfig.version = "current"
    /\ domainConfig.pc = "createDistribution"
    /\ Add({"WebsiteDistribution"}, "createDnsRecords")
    /\ NotDomainConfig

\* this.createDnsRecords(hostedZone, distribution)
DcCreateDnsRecords ==
    /\ domainConfig.version = "current"
    /\ domainConfig.pc = "createDnsRecords"
    /\ Add({"AliasRecord"}
           \cup (IF formatDomainName(domainConfig.props.domainName,
                                     domainConfig.props.stageName)
                    = domainConfig.props.domainName
                 THEN {"WwwAliasRecord"} ELSE {})
           \cup (IF domainConfig.props.stageName = STAGES_PROD
                 THEN {"MxRecords", "SpfRecord"} ELSE {}),
           "createOutputs")
    /\ NotDomainConfig

\* this.createOutputs(...)
DcCreateOutputs ==
    /\ domainConfig.version = "current"
    /\ domainConfig.pc = "createOutputs"
    /\ Add({"HostedZoneId", "DomainName", "DistributionId",
            "DistributionDomainName", "LogBucketName", "LogGroupName",
            "InvalidationCommand"}
           \cup (IF domainConfig.props.stageName = STAGES_BETA
                 THEN {"BetaCredentials"} ELSE {}),
           "returned")
    /\ NotDomainConfig

\* constructor of the first version: hosted zone and the resources of the
\* distribution
DcFirstCreateResources ==
    /\ domainConfig.version = "first"
    /\ domainConfig.pc = "constructor"
    /\ Add({IF domainConfig.props.useExistingHostedZone
            THEN "ExistingHostedZone" ELSE "HostedZone"}
           \cup {"NameServers", "WebsiteBucket", "WebsiteOAI"}
           \cup {IF domainConfig.props.certificateArn
                 THEN "ExistingCertificate" ELSE "SiteCertificate"}
           \cup {"CloudFrontLogBucket", "CloudFrontLogGroup",
                 "SPARedirectFunction", "WebsiteDistribution"},
           "createDnsRecords")
    /\ NotDomainConfig

\* constructor of the first version: the DNS records
DcFirstCreateDnsRecords ==
    /\ domainConfig.version = "first"
    /\ domainConfig.pc = "createDnsRecords"
    /\ Add({"AliasRecord"}
           \cup (IF formatDomainName(domainConfig.props.domainName,
                                     domainConfig.props.stageName)
                    = domainConfig.props.domainName
                 THEN {"WwwAliasRecord"} ELSE {})
           \cup (IF toLowerCase(domainConfig.props.stageName) = toLowerCase(STAGES_PROD)
                 THEN {"MxRecords", "SpfRecord"} ELSE {}),
           "createOutputs")
    /\ NotDomainConfig

\* constructor of the first version: the outputs
DcFirstCreateOutputs ==
    /\ domainConfig.version = "first"
    /\ domainConfig.pc = "createOutputs"
    /\ Add({"HostedZoneId", "DomainName", "DistributionId", "DistributionDomainName",
            "CertificateArn", "LogBucketName", "LogGroupName", "InvalidationCommand"},
           "returned")
    /\ NotDomainConfig

DomainConfigNext ==
    \/ DcCreateHostedZone
    \/ DcCreateSubdomainDelegation
    \/ DcHostedZoneOnly
    \/ DcCreateResources
    \/ DcCreateDistribution
    \/ DcCreateDnsRecords
    \/ DcCreateOutputs
    \/ DcFirstCreateResources
    \/ DcFirstCreateDnsRecords
    \/ DcFirstCreateOutputs

(***************************************************************************)
(* Part VIII.  The role check of the deploy-*-pipeline.sh scripts          *)
(***************************************************************************)

DeployScripts == {"deploy-frontend-pipeline.sh", "deploy-website-pipeline.sh",
                  "deploy-backend-pipeline.sh"}

RoleStacks == {"CodePipelineCrossAccountRole", "CloudFormationDeploymentRole"}

RoleProfiles == {"beta", "prod"}

\* which role stacks exist in which account before the run
RoleStackInputs == [RoleStacks \X RoleProfiles -> BOOLEAN]

RoleCheckIdle ==
    roleCheck = [script |-> "", pc |-> "idle", exists |-> << >>,
                 BETA_ROLE_EXISTS |-> "", PROD_ROLE_EXISTS |-> ""]

\* the script is past its prerequisite check
RoleCheckInit ==
    \E script \in DeployScripts, exists \in RoleStackInputs :
        roleCheck = [script |-> script, pc |-> "describe beta", exists |-> exists,
                     BETA_ROLE_EXISTS |-> "", PROD_ROLE_EXISTS |-> ""]

NotRoleCheck ==
    UNCHANGED <<scriptVars, pipeVars, appVars, namingVars,
                deviceFarm, contactForm, cleanup, domainConfig>>

\* $(aws cloudformation describe-stacks --profile p --stack-name
\*   CodePipelineCrossAccountRole 2>/dev/null || echo "STACK_NOT_FOUND"):
\* the description of the stack, or STACK_NOT_FOUND when the command fails,
\* as it does when the stack does not exist
DescribeOutputs(profile) ==
    {"STACK_NOT_FOUND"} \cup
    (IF roleCheck.exists[<<"CodePipelineCrossAccountRole", profile>>]
     THEN {"Stacks: CodePipelineCrossAccountRole"} ELSE {})

\* [[ $X_ROLE_EXISTS == *"STACK_NOT_FOUND"* ]]
StackNotFound(output) == output = "STACK_NOT_FOUND"

\* BETA_ROLE_EXISTS=$(...)
RcDescribeBeta ==
    /\ roleCheck.pc = "describe beta"
    /\ \E out \in DescribeOutputs("beta") :
          roleCheck' = [roleCheck EXCEPT !.BETA_ROLE_EXISTS = out,
                                         !.pc = "describe prod"]
    /\ NotRoleCheck

\* PROD_ROLE_EXISTS=$(...)
RcDescribeProd ==
    /\ roleCheck.pc = "describe prod"
    /\ \E out \in DescribeOutputs("prod") :
          roleCheck' = [roleCheck EXCEPT !.PROD_ROLE_EXISTS = out,
                                         !.pc = "if beta"]
    /\ NotRoleCheck

\* if [[ $BETA_ROLE_EXISTS == *"STACK_NOT_FOUND"* ]]; then ... else ... fi
RcIfBeta ==
    /\ roleCheck.pc = "if beta"
    /\ roleCheck' = [roleCheck EXCEPT !.pc =
          IF StackNotFound(roleCheck.BETA_ROLE_EXISTS)
          THEN "deploy CodePipelineCrossAccountRole beta" ELSE "if prod"]
    /\ NotRoleCheck

\* if [[ $PROD_ROLE_EXISTS == *"STACK_NOT_FOUND"* ]]; then ... else ... fi
RcIfProd ==
    /\ roleCheck.pc = "if prod"
    /\ roleCheck' = [roleCheck EXCEPT !.pc =
          IF StackNotFound(roleCheck.PROD_ROLE_EXISTS)
          THEN "deploy CodePipelineCrossAccountRole prod" ELSE "done"]
    /\ NotRoleCheck

\* aws cloudformation deploy --stack-name <stack> --profile <profile>
RcDeployBetaCodePipelineRole ==
    /\ roleCheck.pc = "deploy CodePipelineCrossAccountRole beta"
    /\ roleCheck' = [roleCheck EXCEPT
          !.exists[<<"CodePipelineCrossAccountRole", "beta">>] = TRUE,
          !.pc = "deploy CloudFormationDeploymentRole beta"]
    /\ NotRoleCheck

RcDeployBetaDeploymentRole ==
    /\ roleCheck.pc = "deploy CloudFormationDeploymentRole beta"
    /\ roleCheck' = [roleCheck EXCEPT
          !.exists[<<"CloudFormationDeploymentRole", "beta">>] = TRUE,
          !.pc = "if prod"]
    /\ NotRoleCheck

RcDeployProdCodePipelineRole ==
    /\ roleCheck.pc = "deploy CodePipelineCrossAccountRole prod"
    /\ roleCheck' = [roleCheck EXCEPT
          !.exists[<<"CodePipelineCrossAccountRole", "prod">>] = TRUE,
          !.pc = "deploy CloudFormationDeploymentRole prod"]
    /\ NotRoleCheck

RcDeployProdDeploymentRole ==
    /\ roleCheck.pc = "deploy CloudFormationDeploymentRole prod"
    /\ roleCheck' = [roleCheck EXCEPT
          !.exists[<<"CloudFormationDeploymentRole", "prod">>] = TRUE,
          !.pc = "done"]
    /\ NotRoleCheck

RoleCheckNext ==
    \/ RcDescribeBeta
    \/ RcDescribeProd
    \/ RcIfBeta
    \/ RcIfProd
    \/ RcDeployBetaCodePipelineRole
    \/ RcDeployBetaDeploymentRole
    \/ RcDeployProdCodePipelineRole
    \/ RcDeployProdDeploymentRole


RunIdle ==
    /\ DeviceFarmIdle /\ ContactFormIdle /\ CleanupIdle
    /\ DomainConfigIdle /\ RoleCheckIdle

(***************************************************************************)
(* Specifications                                                          *)
(***************************************************************************)

vars == <<scriptVars, pipeVars, tsVars>>

Init == ScriptInit /\ PipelineInit0 /\ AppIdle /\ NamingIdle /\ RunIdle
Next == ScriptNext
Spec == Init /\ [][Next]_vars

PipelineSpecInit == ScriptIdle /\ PipelineInit /\ AppIdle /\ NamingIdle /\ RunIdle
PipelineSpec == PipelineSpecInit /\ [][PipelineNext]_vars

AppSpecInit == ScriptIdle /\ PipelineInit0 /\ AppInit /\ NamingIdle /\ RunIdle
AppSpec == AppSpecInit /\ [][AppNext]_vars

NamingSpecInit == ScriptIdle /\ PipelineInit0 /\ AppIdle /\ NamingIdle /\ RunIdle
NamingSpec == NamingSpecInit /\ [][NamingNext]_vars

DeviceFarmSpecInit ==
    /\ ScriptIdle /\ PipelineInit0 /\ AppIdle /\ NamingIdle
    /\ DeviceFarmInit /\ ContactFormIdle /\ CleanupIdle
    /\ DomainConfigIdle /\ RoleCheckIdle
DeviceFarmSpec == DeviceFarmSpecInit /\ [][DeviceFarmNext]_vars

ContactFormSpecInit ==
    /\ ScriptIdle /\ PipelineInit0 /\ AppIdle /\ NamingIdle
    /\ DeviceFarmIdle /\ ContactFormInit /\ CleanupIdle
    /\ DomainConfigIdle /\ RoleCheckIdle
ContactFormSpec == ContactFormSpecInit /\ [][ContactFormNext]_vars

CleanupSpecInit ==
    /\ ScriptIdle /\ PipelineInit0 /\ AppIdle /\ NamingIdle
    /\ DeviceFarmIdle /\ ContactFormIdle /\ CleanupInit
    /\ DomainConfigIdle /\ RoleCheckIdle
CleanupSpec == CleanupSpecInit /\ [][CleanupNext]_vars

DomainConfigSpecInit ==
    /\ ScriptIdle /\ PipelineInit0 /\ AppIdle /\ NamingIdle
    /\ DeviceFarmIdle /\ ContactFormIdle /\ CleanupIdle
    /\ DomainConfigInit /\ RoleCheckIdle
DomainConfigSpec == DomainConfigSpecInit /\ [][DomainConfigNext]_vars

RoleCheckSpecInit ==
    /\ ScriptIdle /\ PipelineInit0 /\ AppIdle /\ NamingIdle
    /\ DeviceFarmIdle /\ ContactFormIdle /\ CleanupIdle
    /\ DomainConfigIdle /\ RoleCheckInit
RoleCheckSpec == RoleCheckSpecInit /\ [][RoleCheckNext]_vars

(***************************************************************************)
(* Properties of the bootstrap script                                      *)
(***************************************************************************)

BareIdx     == { i \in 1..Len(Prog) : Prog[i].op = "role_deploy" /\ Prog[i].keys = << >> }
PatchIdx    == { i \in 1..Len(Prog) : Prog[i].op = "role_deploy" /\ Prog[i].keys # << >> }
CaptureIdx  == { i \in 1..Len(Prog) : Prog[i].op = "capture" }
PipelineStackNames ==
    {"PipelineDeploymentStack", "FrontEndPipelineDeploymentStack", "WebsitePipelineStack"}
FourthBare  == CHOOSE i \in BareIdx : \A j \in BareIdx : j <= i
LastPatch   == CHOOSE i \in PatchIdx : \A j \in PatchIdx : j <= i
ParamOf(v)  ==
    CASE v = "KEY_ARN" -> "KeyArn"
      [] v = "FRONT_END_KEY_ARN" -> "FrontEndKeyArn"
      [] v = "WEBSITE_KEY_ARN" -> "WebsiteKeyArn"
SomeAccountUnset == \E n \in EnvNames : env[n] = ""

\* C1: when the key ARN captured from a pipeline stack deploy is empty, the
\* script does not get past the check that follows that deploy, it leaves
\* through that check's exit, and no role re-deploy is started.
C1_EmptyKeyArnAborts ==
    \A i \in CaptureIdx :
        (i < pc /\ shvars[Prog[i].var] = << >>) =>
            /\ pc = i + 1
            /\ PatchIdx \cap started = {}
            /\ (~Running => exitLine = Prog[i + 1].exitAt)

\* a run that captured an empty key ARN and has terminated
C1_Witness ==
    /\ ~Running
    /\ \E i \in CaptureIdx : i < pc /\ shvars[Prog[i].var] = << >>

\* C2: when one of the three account variables is unset or empty, the
\* script never starts an aws or cdk command and leaves through the exit
\* of the prerequisite check.
C2_MissingAccountAborts ==
    SomeAccountUnset =>
        /\ started = {}
        /\ pc = 1
        /\ (~Running => exitLine = Prog[1].exitAt)

\* a run with an unset account variable that has terminated
C2_Witness == SomeAccountUnset /\ ~Running

\* C3: while a pipeline stack deploy is running, hence at the moment it
\* started, all four bare role deployments have completed.
C3_RolesCompleteBeforePipelineDeploy ==
    (waiting /\ Cmd.op = "cdk_deploy" /\ Cmd.stack \in PipelineStackNames)
        => BareIdx \subseteq finished

\* C4: while git commit/push is running, hence at the moment it started,
\* all four role re-deployments carrying the key ARN have completed.
C4_PushAfterRolePatches ==
    (waiting /\ Cmd.op = "git_push") => PatchIdx \subseteq finished

\* C7: a run that left through the exit of the prerequisite check or of a
\* key ARN check has a non-zero exit status.
C7_AbortExitsNonZero ==
    (~Running /\ exitLine # 0) => exitStatus # 0

C9_RedeployPassesEveryKey ==
    /\ \A r \in PatchIdx \cap started :
          \A v \in ShellVars :
              shvars[v] # << >> => <<ParamOf(v), shvars[v][1]>> \in passed[r]
    /\ pc > LastPatch =>
          \A b \in BareIdx : \E r \in PatchIdx \cap started :
              /\ Prog[r].stack = Prog[b].stack
              /\ Prog[r].profile = Prog[b].profile
              /\ Prog[r].stage = Prog[b].stage

\* a run that passed every key check and is past the last role re-deploy
C9_Witness ==
    /\ pc > LastPatch
    /\ \A v \in ShellVars : shvars[v] # << >>

(***************************************************************************)
(* Properties of the pipelines                                             *)
(***************************************************************************)

StageNames == [s \in 1..Len(Decl) |-> Decl[s].stageName]
SixStages ==
    <<"Source", "Build", "Pipeline_Update", "Deploy_Beta", "Manual_Approval",
      "Deploy_Prod">>
DeployStageNames == {"Deploy_Beta", "Deploy_Prod"}
InStageNamed(e, names) == exec[e].stage > 0 /\ StageOf(e).stageName \in names

\* C5: an execution has started an action of Deploy_Prod only if the
\* action of a Manual_Approval stage was approved in that same execution.
C5_ProdOnlyAfterApproval ==
    \A e \in Executions :
        (InStageNamed(e, {"Deploy_Prod"}) /\ exec[e].running \cup exec[e].done # {})
            => \E ap \in exec[e].approved : Decl[ap[1]].stageName = "Manual_Approval"

C10_ExplicitDistinctRunOrder ==
    /\ \A s \in 1..Len(Decl) :
          Decl[s].stageName \in DeployStageNames =>
              LET acts == Decl[s].actions IN
              /\ \A a \in 1..Len(acts) : acts[a].runOrder # 0
              /\ \A a, b \in 1..Len(acts) :
                    a # b => acts[a].runOrder # acts[b].runOrder
    /\ \A e \in Executions :
          InStageNamed(e, DeployStageNames) => Cardinality(exec[e].running) <= 1

ActionKinds ==
    {GitHubSource, CodeBuild, CloudFormation, S3Deploy, LambdaInvoke, ManualApproval}
StageNamed(name) == Decl[CHOOSE s \in 1..Len(Decl) : Decl[s].stageName = name]
\* position of action i of stage st in the order of execution of the stage
RankIn(st, i) ==
    Cardinality({ RunOrderOf(st.actions[j]) :
                    j \in { k \in 1..Len(st.actions) :
                              RunOrderOf(st.actions[k]) < RunOrderOf(st.actions[i]) } })
KindCountAt(st, r, k) ==
    Cardinality({ i \in 1..Len(st.actions) :
                    RankIn(st, i) = r /\ st.actions[i].kind = k })

\* C11: Deploy_Prod has the same kinds of actions as Deploy_Beta, the same
\* number of each kind at each position of the order of execution.
C11_ProdMirrorsBeta ==
    LET beta == StageNamed("Deploy_Beta")
        prod == StageNamed("Deploy_Prod")
    IN  \A r \in 0..(Len(beta.actions) + Len(prod.actions)) :
            \A k \in ActionKinds :
                KindCountAt(beta, r, k) = KindCountAt(prod, r, k)

WaitsForHuman(e, a) ==
    /\ exec[e].stage > 0
    /\ a \in exec[e].running
    /\ a \in 1..Len(ActionsOf(e))
    /\ ActionsOf(e)[a].kind = ManualApproval

\* C18 as stated: an execution waits for a person only in the
\* Manual_Approval stage.
C18_OnlyApprovalStageWaits ==
    \A e \in Executions : \A a \in ActionIds :
        WaitsForHuman(e, a) => StageOf(e).stageName = "Manual_Approval"

\* C18 amended: an execution waits for a person in the Manual_Approval
\* stage, and in Deploy_Beta and Deploy_Prod of the current
\* WebsitePipelineStack at the ManualCacheInvalidation action, which waits
\* after every other action of its stage has succeeded; no other action of a
\* deploy stage waits for a person.
C18_ApprovalAndCacheInvalidationWait ==
    \A e \in Executions : \A a \in ActionIds :
        WaitsForHuman(e, a) =>
            \/ StageOf(e).stageName = "Manual_Approval"
            \/ /\ pipeline = "WebsitePipelineStack"
               /\ StageOf(e).stageName \in DeployStageNames
               /\ ActionsOf(e)[a].name = "ManualCacheInvalidation"
               /\ exec[e].done = (1..Len(ActionsOf(e))) \ {a}

\* an execution waits at ManualCacheInvalidation in Deploy_Prod
C18_Witness ==
    \E e \in Executions : \E a \in ActionIds :
        /\ WaitsForHuman(e, a)
        /\ StageOf(e).stageName = "Deploy_Prod"

(***************************************************************************)
(* Order of the stack deployments in the bootstrap script                  *)
(***************************************************************************)

WebsiteBucketStackNames ==
    {"WebsiteBetaus-west-2BucketStack", "WebsiteProdus-west-2BucketStack"}
CdkDeploysOf(stack) ==
    { i \in 1..Len(Prog) : Prog[i].op = "cdk_deploy" /\ Prog[i].stack = stack }

\* C19: when the deployment of WebsitePipelineStack has started, the
\* deployment of each website bucket stack has finished earlier in the run,
\* and when a role stack is re-deployed with key ARNs the deployment of
\* every pipeline stack whose key ARN it passes has finished.
C19_ProducersBeforeConsumers ==
    /\ \A i \in CdkDeploysOf("WebsitePipelineStack") \cap started :
          \A b \in WebsiteBucketStackNames :
              \E j \in CdkDeploysOf(b) \cap finished : j < i
    /\ \A r \in PatchIdx \cap started :
          \E j \in CdkDeploysOf("PipelineDeploymentStack") \cap finished : j < r

(***************************************************************************)
(* Properties of the configuration table and of the naming functions       *)
(***************************************************************************)

\* C12 as stated: every pipeline stack constructor finds the label "Beta"
\* at index 0 and the label "Prod" at index 1 of the list it reads.
C12_BetaThenProdLabels ==
    \A b \in built : b.betaStage = <<"B", "e", "t", "a">> /\ b.prodStage = <<"P", "r", "o", "d">>

\* C12 amended: every pipeline stack constructor finds the record of the
\* beta account at index 0 and the record of the prod account at index 1 of
\* the list it reads; their labels are "Beta" and "Prod" with the current
\* utils/config.ts and "beta" and "prod" with its first version, whose list
\* PipelineStack reads as applicationStackConfigs.
C12_BetaThenProdRecords ==
    \A b \in built :
        /\ b.betaAccountId = accounts.beta
        /\ b.prodAccountId = accounts.prod
        /\ b.betaStage = (IF appVersion = "first" THEN <<"b", "e", "t", "a">> ELSE <<"B", "e", "t", "a">>)
        /\ b.prodStage = (IF appVersion = "first" THEN <<"p", "r", "o", "d">> ELSE <<"P", "r", "o", "d">>)

\* the current app has constructed its three pipeline stacks for two
\* different accounts
C12_Witness ==
    /\ appVersion = "current"
    /\ apc = "done"
    /\ Cardinality(built) = 3
    /\ accounts.beta # accounts.prod

\* C13: two stacks constructed for different (stage, region, kind) have
\* different names, and no construction fails on a name already taken.
C13_DistinctNames ==
    /\ apc # "threw"
    /\ \A x, y \in app :
          <<x.stage, x.region, x.kind>> # <<y.stage, y.region, y.kind>>
              => x.id # y.id

\* the current app has constructed the seven stacks of both stage records
C13_Witness ==
    /\ appVersion = "current"
    /\ apc = "done"
    /\ Cardinality({ <<x.stage, x.region, x.kind>> : x \in app }) = 14

C15_ServiceStackNames ==
    \A call \in {lastCall, observed} :
        call.fn = "createServiceStackName" =>
            /\ call.args = << <<"B", "e", "t", "a">>, <<"u", "s", "-", "w", "e", "s", "t", "-", "2">> >>
                  => call.result = <<"B", "e", "t", "a", "u", "s", "w", "e", "s", "t", "2", "S", "e", "r", "v", "i", "c", "e", "S", "t", "a", "c", "k">>
            /\ call.args = << <<"P", "r", "o", "d">>, <<"u", "s", "-", "w", "e", "s", "t", "-", "2">> >>
                  => call.result = <<"P", "r", "o", "d", "u", "s", "w", "e", "s", "t", "2", "S", "e", "r", "v", "i", "c", "e", "S", "t", "a", "c", "k">>

\* both calls have been made
C15_Witness ==
    /\ observed.fn = "createServiceStackName"
    /\ observed.args = << <<"B", "e", "t", "a">>, <<"u", "s", "-", "w", "e", "s", "t", "-", "2">> >>
    /\ lastCall.fn = "createServiceStackName"
    /\ lastCall.args = << <<"P", "r", "o", "d">>, <<"u", "s", "-", "w", "e", "s", "t", "-", "2">> >>

\* C16: createDeviceFarmStackName("Beta", "us-west-2", "FrontEnd") is
\* "FrontEndBetauswest2DeviceFarmStack".
C16_DeviceFarmStackName ==
    (/\ lastCall.fn = "createDeviceFarmStackName"
     /\ lastCall.args = << <<"B", "e", "t", "a">>, <<"u", "s", "-", "w", "e", "s", "t", "-", "2">>, <<"F", "r", "o", "n", "t", "E", "n", "d">> >>)
        => lastCall.result = <<"F", "r", "o", "n", "t", "E", "n", "d", "B", "e", "t", "a", "u", "s", "w", "e", "s", "t", "2", "D", "e", "v", "i", "c", "e", "F", "a", "r", "m", "S", "t", "a", "c", "k">>

\* the call has been made
C16_Witness ==
    /\ lastCall.fn = "createDeviceFarmStackName"
    /\ lastCall.args = << <<"B", "e", "t", "a">>, <<"u", "s", "-", "w", "e", "s", "t", "-", "2">>, <<"F", "r", "o", "n", "t", "E", "n", "d">> >>

\* C20: no step of the app changes stageConfigurationList.
C20_TableNeverMutated ==
    [][stageConfigurationList' = stageConfigurationList]_vars

\* the app has run to its end, loops and pipeline stack constructors included
C20_Witness ==
    /\ apc = "done"
    /\ built # {}
    /\ stageConfigurationList \in
          {StageConfigurationList(accounts), StageConfigurationListV1(accounts)}

(***************************************************************************)
(* Overlap of deployments in the bootstrap script                          *)
(***************************************************************************)

\* C21: no two deployments of the same stack name with the same profile
\* are in flight together.
C21_NoOverlapOnOneStack ==
    \A i, j \in inflight :
        (i # j /\ Prog[i].stack # "" /\ Prog[i].stack = Prog[j].stack)
            => Prog[i].profile # Prog[j].profile

(***************************************************************************)
(* Injectivity of the naming functions                                     *)
(***************************************************************************)

\* C22: two calls that differ in the function called or in an argument
\* return different names.
C22_Injective ==
    (/\ observed # NoCall
     /\ lastCall # NoCall
     /\ <<lastCall.fn, lastCall.args>> # <<observed.fn, observed.args>>)
        => lastCall.result # observed.result

(***************************************************************************)
(* Order of the sub-steps of the website deploy stages                     *)
(***************************************************************************)

WebsitePipelineNames ==
    {"WebsitePipelineStack", "WebsitePipelineStackV1", "WebsitePipelineStackV2",
     "WebsitePipelineStackV3"}

\* place of an action in the list: bucket stack, domain stack, contact-form
\* stack, content, cache invalidation, manual confirmation; 0 for an action
\* that is not in the list
StepOf(name) ==
    CASE name = "DeployWebsiteBucket"                                 -> 1
      [] name \in {"DeployBetaDomainConfig", "DeployProdDomainConfig"} -> 2
      [] name \in {"DeployBetaContactForm", "DeployProdContactForm"}   -> 3
      [] name = "DeployWebsiteContent"                                -> 4
      [] name = "InvalidateCloudFrontCache"                           -> 5
      [] name = "ManualCacheInvalidation"                             -> 6
      [] OTHER                                                        -> 0

DeployStagesOfDecl == { s \in 1..Len(Decl) : Decl[s].stageName \in DeployStageNames }

\* C23 as stated: in a website pipeline each deploy stage has exactly the
\* six sub-steps of the list, run in the order of the list.
C23_SixStepsInOrder ==
    pipeline \in WebsitePipelineNames =>
        \A s \in DeployStagesOfDecl :
            /\ Len(Decl[s].actions) = 6
            /\ \A a \in 1..Len(Decl[s].actions) :
                  StepOf(Decl[s].actions[a].name) = RankIn(Decl[s], a) + 1

\* C23 amended: in a website pipeline the actions of a deploy stage run in
\* the relative order of the list, one after the other; the current
\* WebsitePipelineStack runs PublishAssets first, then bucket stack, domain
\* stack, contact-form stack, content and the manual confirmation, with no
\* cache invalidation action; the earlier versions run bucket stack, domain
\* stack (where declared), content and cache invalidation, with no
\* contact-form stack and no manual confirmation.
C23_StepsInRelativeOrder ==
    pipeline \in WebsitePipelineNames =>
        /\ \A s \in DeployStagesOfDecl :
              LET acts == Decl[s].actions
                  steps == { StepOf(acts[a].name) : a \in 1..Len(acts) }
              IN  /\ \A a, b \in 1..Len(acts) :
                        RunOrderOf(acts[a]) < RunOrderOf(acts[b])
                            <=> StepOf(acts[a].name) < StepOf(acts[b].name)
                  /\ pipeline = "WebsitePipelineStack" => steps = {0, 1, 2, 3, 4, 6}
                  /\ pipeline # "WebsitePipelineStack" =>
                        /\ {1, 4, 5} \subseteq steps
                        /\ steps \subseteq {1, 2, 4, 5}
        /\ \A e \in Executions :
              InStageNamed(e, DeployStageNames) =>
                  \A a \in exec[e].running \cup exec[e].done :
                      \A b \in 1..Len(ActionsOf(e)) :
                          StepOf(ActionsOf(e)[b].name) < StepOf(ActionsOf(e)[a].name)
                              => b \in exec[e].done

\* an execution of the current website pipeline has run every sub-step of
\* Deploy_Beta and is in Deploy_Prod
C23_Witness ==
    /\ pipeline = "WebsitePipelineStack"
    /\ \E e \in Executions :
          /\ InStageNamed(e, {"Deploy_Prod"})
          /\ exec[e].done # {}

(***************************************************************************)
(* Stack names referenced by the pipelines and the scripts                 *)
(***************************************************************************)

\* a stack name written out in a deploy action or a cdk deploy command
StackRef(stage, name) == [stage |-> stage, name |-> name]

\* stacks/frontend/frontendPipelineStack.ts, Deploy_Beta and Deploy_Prod
FrontendPipelineStackRefs ==
    { StackRef(<<"B", "e", "t", "a">>, <<"F", "r", "o", "n", "t", "E", "n", "d", "B", "e", "t", "a", "u", "s", "w", "e", "s", "t", "2", "D", "e", "p", "l", "o", "y", "m", "e", "n", "t", "B", "u", "c", "k", "e", "t", "S", "t", "a", "c", "k">>),
      StackRef(<<"B", "e", "t", "a">>, <<"F", "r", "o", "n", "t", "E", "n", "d", "B", "e", "t", "a", "u", "s", "w", "e", "s", "t", "2", "D", "e", "v", "i", "c", "e", "F", "a", "r", "m", "S", "t", "a", "c", "k">>),
      StackRef(<<"P", "r", "o", "d">>, <<"P", "r", "o", "d", "u", "s", "w", "e", "s", "t", "2", "D", "e", "v", "i", "c", "e", "F", "a", "r", "m", "S", "t", "a", "c", "k">>) }

\* stacks/website/websitePipelineStack.ts, createBetaDeployStage and
\* createProdDeployStage
WebsitePipelineStackRefs ==
    { StackRef(<<"B", "e", "t", "a">>, <<"W", "e", "b", "s", "i", "t", "e", "B", "e", "t", "a", "u", "s", "-", "w", "e", "s", "t", "-", "2", "B", "u", "c", "k", "e", "t", "S", "t", "a", "c", "k">>),
      StackRef(<<"B", "e", "t", "a">>, <<"W", "e", "b", "s", "i", "t", "e", "B", "e", "t", "a", "u", "s", "-", "w", "e", "s", "t", "-", "2", "D", "o", "m", "a", "i", "n", "q", "a", "n", "d", "m", "e", "d", "a", "t", "i", "n", "g", "-", "c", "o", "m", "S", "t", "a", "c", "k">>),
      StackRef(<<"B", "e", "t", "a">>, <<"B", "e", "t", "a", "u", "s", "w", "e", "s", "t", "2", "C", "o", "n", "t", "a", "c", "t", "F", "o", "r", "m", "S", "t", "a", "c", "k">>),
      StackRef(<<"P", "r", "o", "d">>, <<"W", "e", "b", "s", "i", "t", "e", "P", "r", "o", "d", "u", "s", "-", "w", "e", "s", "t", "-", "2", "B", "u", "c", "k", "e", "t", "S", "t", "a", "c", "k">>),
      StackRef(<<"P", "r", "o", "d">>, <<"W", "e", "b", "s", "i", "t", "e", "P", "r", "o", "d", "u", "s", "-", "w", "e", "s", "t", "-", "2", "D", "o", "m", "a", "i", "n", "q", "a", "n", "d", "m", "e", "d", "a", "t", "i", "n", "g", "-", "c", "o", "m", "S", "t", "a", "c", "k">>),
      StackRef(<<"P", "r", "o", "d">>, <<"P", "r", "o", "d", "u", "s", "w", "e", "s", "t", "2", "C", "o", "n", "t", "a", "c", "t", "F", "o", "r", "m", "S", "t", "a", "c", "k">>) }

\* stacks/backend/backendPipelineStack.ts, Deploy_Beta and Deploy_Prod
BackendPipelineStackRefs ==
    { StackRef(<<"B", "e", "t", "a">>, <<"B", "e", "t", "a", "u", "s", "w", "e", "s", "t", "2", "S", "e", "r", "v", "i", "c", "e", "S", "t", "a", "c", "k">>),
      StackRef(<<"B", "e", "t", "a">>, <<"B", "a", "c", "k", "E", "n", "d", "B", "e", "t", "a", "u", "s", "w", "e", "s", "t", "2", "V", "p", "c", "S", "t", "a", "c", "k">>),
      StackRef(<<"P", "r", "o", "d">>, <<"P", "r", "o", "d", "u", "s", "w", "e", "s", "t", "2", "S", "e", "r", "v", "i", "c", "e", "S", "t", "a", "c", "k">>),
      StackRef(<<"P", "r", "o", "d">>, <<"B", "a", "c", "k", "E", "n", "d", "P", "r", "o", "d", "u", "s", "w", "e", "s", "t", "2", "V", "p", "c", "S", "t", "a", "c", "k">>) }

\* scripts/deploy-frontend-pipeline.sh, the cdk deploy commands of the
\* bucket and device farm stacks
DeployFrontendPipelineScriptRefs ==
    { StackRef(<<"B", "e", "t", "a">>, <<"B", "e", "t", "a", "F", "r", "o", "n", "t", "E", "n", "d", "B", "u", "c", "k", "e", "t", "S", "t", "a", "c", "k">>),
      StackRef(<<"P", "r", "o", "d">>, <<"P", "r", "o", "d", "F", "r", "o", "n", "t", "E", "n", "d", "B", "u", "c", "k", "e", "t", "S", "t", "a", "c", "k">>),
      StackRef(<<"B", "e", "t", "a">>, <<"B", "e", "t", "a", "F", "r", "o", "n", "t", "E", "n", "d", "D", "e", "v", "i", "c", "e", "F", "a", "r", "m", "S", "t", "a", "c", "k">>),
      StackRef(<<"P", "r", "o", "d">>, <<"P", "r", "o", "d", "F", "r", "o", "n", "t", "E", "n", "d", "D", "e", "v", "i", "c", "e", "F", "a", "r", "m", "S", "t", "a", "c", "k">>) }

StackRefs ==
    FrontendPipelineStackRefs \cup WebsitePipelineStackRefs
        \cup BackendPipelineStackRefs \cup DeployFrontendPipelineScriptRefs

\* C24: once the current app has constructed its stacks, every stack name
\* written out in a deploy action or a cdk deploy command is the name of a
\* stack the app constructed for that stage.
C24_ReferencedStacksExist ==
    (appVersion = "current" /\ apc = "done") =>
        \A r \in StackRefs :
            \E x \in app : x.id = r.name /\ x.stage = r.stage

(***************************************************************************)
(* Properties of CheckDeviceFarmResults                                    *)
(***************************************************************************)

\* the CodeBuild action succeeds when its build command exits with 0
CheckDeviceFarmResultsSucceeded ==
    deviceFarm.pc = "exited" /\ deviceFarm.exit = 0

\* C25: the action succeeds only if the results were fetched without
\* error and the most recent summary of the bucket has result PASSED.
C25_SucceedsOnlyIfPassed ==
    deviceFarm.pc = "exited" =>
        (CheckDeviceFarmResultsSucceeded =>
            /\ ~deviceFarm.error
            /\ deviceFarm.latest # 0
            /\ deviceFarm.objects[deviceFarm.latest].result = "PASSED")

(***************************************************************************)
(* Properties of the contact-form handler                                  *)
(***************************************************************************)

\* C26: the number of items of the table never exceeds MAX_ITEMS, also
\* when several invocations of the handler run concurrently.
C26_NeverExceedsMaxItems == contactForm.count <= MAX_ITEMS

\* C27: an invocation writes an item only if the method is not OPTIONS,
\* the body has a non-empty email, the subject is 'Waitlist Registration'
\* or name, subject and message are all non-empty, and the item count the
\* invocation read is below MAX_ITEMS.
C27_WritesOnlyValidBelowLimit ==
    contactForm.lastPut # NoPut =>
        LET event == contactForm.lastPut.event
            body == event.body IN
        /\ event.httpMethod # "OPTIONS"
        /\ body # NotJSON
        /\ body.email # ""
        /\ \/ body.subject = "Waitlist Registration"
           \/ body.name # "" /\ body.subject # "" /\ body.message # ""
        /\ contactForm.lastPut.Count < MAX_ITEMS

\* a waitlist registration without name and message was written
C27_Witness ==
    /\ contactForm.lastPut # NoPut
    /\ contactForm.lastPut.event.body.subject = "Waitlist Registration"
    /\ contactForm.lastPut.event.body.name = ""
    /\ contactForm.lastPut.Count = MAX_ITEMS - 1

(***************************************************************************)
(* Properties of automate_cleanup.sh                                       *)
(***************************************************************************)

ApplicationDeploymentStack(profile) ==
    IF profile = "beta" THEN <<"BetaApplicationDeploymentStack", "beta">>
                        ELSE <<"ProdApplicationDeploymentStack", "prod">>

RoleStackNames == {"CodePipelineCrossAccountRole", "CloudFormationDeploymentRole"}

DeletionStarted(key) ==
    cleanup.status[key] \in {"DELETE_IN_PROGRESS", "DELETE_COMPLETE", "DELETE_FAILED"}

\* C28: the deletion of a cross-account role stack of an account has
\* started only if the deletion of the application deployment stack of that
\* account has completed.
C28_RolesDeletedAfterApplication ==
    cleanup.run # "idle" =>
        \A profile \in {"beta", "prod"}, role \in RoleStackNames :
            DeletionStarted(<<role, profile>>) =>
                cleanup.status[ApplicationDeploymentStack(profile)] = "DELETE_COMPLETE"

(***************************************************************************)
(* Properties of DomainConfigurationStack                                  *)
(***************************************************************************)

HasDelegation == "BetaSubdomainDelegation" \in domainConfig.constructs

\* C29: a constructed DomainConfigurationStack has the NS delegation
\* record of the beta subdomain if and only if the stage label is Prod,
\* whether or not the distribution is deployed.
C29_DelegationIffProd ==
    domainConfig.pc = "returned" =>
        (HasDelegation <=> domainConfig.props.stageName = STAGES_PROD)

\* C29 (amended): the record is created only if the stage label is Prod;
\* the version of the class that has createSubdomainDelegation creates it
\* for every stack of stage Prod, whether or not the distribution is
\* deployed; the earlier version never creates it.
C29_DelegationOnlyIfProd ==
    /\ HasDelegation => domainConfig.props.stageName = STAGES_PROD
    /\ (domainConfig.version = "current" /\ domainConfig.pc = "returned"
        /\ domainConfig.props.stageName = STAGES_PROD) => HasDelegation
    /\ domainConfig.version = "first" => ~HasDelegation

\* a Prod stack of the current version, built without its distribution,
\* has the record
C29_Witness ==
    /\ domainConfig.version = "current"
    /\ domainConfig.pc = "returned"
    /\ domainConfig.props.stageName = STAGES_PROD
    /\ ~shouldDeployDistribution(domainConfig.props)
    /\ HasDelegation

(***************************************************************************)
(* Properties of the role check                                            *)
(***************************************************************************)

\* C30: after the role-check step both role stacks exist in both the beta
\* and the prod account, whichever subset of them existed before the run.
C30_AllRoleStacksExist ==
    roleCheck.pc = "done" =>
        \A key \in RoleStacks \X RoleProfiles : roleCheck.exists[key]

====
